---------------------------- MODULE Spec2Model ----------------------------
(***************************************************************************)
(* Gesture engines of kineticode: the copy/paste flow (unified_engine.py   *)
(* and copy_paste_engine.py: the frame loop and the read_stdin listener    *)
(* thread), the push/confirm flow (unified_engine.py and push_engine.py),  *)
(* the zone swipe and snap logic (gesture_engine.py), the wink and head    *)
(* tilt logic (unified_engine.py) and posture reporting (posture_engine.py *)
(* and the two unified engines).                                           *)
(*                                                                         *)
(* Several specifications share the module: Spec (copy/paste and the       *)
(* listener, statement by statement), SpecPush, SpecSwipe, SpecHand (the   *)
(* fist and open-hand classifiers), SpecLoop and SpecLoopFair (the head of *)
(* the frame loop: failed reads and shutdown), SpecGate (one whole tick of *)
(* unified_engine.py with the tests in front of each classifier),          *)
(* SpecSnap, SpecFace, SpecPosture and SpecTick (a tick of the frame loop  *)
(* on its hand and pose results, block by block), SpecCount (the frame     *)
(* counters of the copy/paste flow), SpecMacro (the macro gestures),       *)
(* SpecRun (the records of one run of an engine), SpecAsync (the push flow *)
(* with the threads of perform_git_push_async), SpecFault (exceptions in a *)
(* tick) and SpecEma (the moving averages).  Each leaves the variables of  *)
(* the others untouched.                                                   *)
(*                                                                         *)
(* Time is the integer variable now, read wherever the code calls          *)
(* time.time() and advanced by the environment.  One unit of now is 0.5 s  *)
(* in Spec, SpecLoop, SpecGate, SpecPosture, SpecTick, SpecCount and       *)
(* SpecMacro, 1 s in SpecPush and SpecAsync, 0.1 s in SpecFace and 0.05 s  *)
(* in SpecSwipe and SpecSnap (SpecRun, SpecFault and SpecEma do not read   *)
(* the clock); the durations of the code are written in the unit of their  *)
(* specification.                                                          *)
(* time.time() is an epoch time, far above every cooldown, so the clock    *)
(* starts above them while the "last ..." timestamps start at 0 as in the  *)
(* code.                                                                   *)
(*                                                                         *)
(* Distances and coordinates are floats in the code; here they are         *)
(* integers (pose coordinates in hundredths of the frame, hand coordinates *)
(* of the swipe logic in twentieths, distances in an arbitrary common      *)
(* unit): comparisons are cross-multiplied and a moving average is rounded *)
(* down to the grid.                                                       *)
(***************************************************************************)
EXTENDS Integers, Sequences, FiniteSets, TLC

VARIABLES
    now,                    \* time.time()
    \* ---- copy/paste flow ----
    engine,                 \* which program runs: "unified" or "copy_paste"
    current_state,          \* global current_state (shared with read_stdin)
    shutdown_flag,          \* global shutdown_flag
    fist_frames,
    open_frames,
    was_fist_previously,
    last_cp_action_time,    \* last_cp_action_time / last_action_time
    current_time,           \* the time the cooldown test of the tick used;
                            \* 0 between ticks, where the code never reads it
    pc,                     \* position of the frame loop
    lpc,                    \* position of the read_stdin thread
    \* ---- observers of the copy/paste flow (not program state) ----
    last_sel,               \* the latest line the listener handled: "true"
                            \* ("seen" once a tick began after it),
                            \* "false" and then "cancel" (AWAITING_COPY ->
                            \* IDLE, in two steps of the thread; "cancel_late"
                            \* if the copy was printed by then), "noop" for
                            \* well-formed records, "bad_true", "bad_false",
                            \* "bad_cancel" for records whose hasSelection is
                            \* no boolean, "other", "unparsable"
    emit_last,              \* tick time of the latest copy/paste record
    emit_gap,               \* tick time between the latest two records
    copies,                 \* number of copy records since the scenario began
    scen_fists,             \* fist frames processed in a row in the scenario
    fist_since_copy,        \* a stable fist was seen since the last copy
    paste_read,             \* current_state as read by the tick that pastes
    fist_run,               \* latest hand frames that were all fist frames
    open_run,               \* latest hand frames that were all open frames
    fist_matches,           \* fist frames since fist_frames was last 0
    open_matches,           \* open frames since open_frames was last 0
    \* ---- push flow ----
    push_engine,            \* "unified" or "push"
    extension,              \* args.extension
    push_state,
    neutral_dist,
    last_push_time,
    push_start_time,
    confirmation_start_time,
    pose_ev,                \* observer: what the latest pose tick did
    last_confirm,           \* observer: times of the latest confirmed push
    \* ---- swipe flow ----
    can_trigger,
    last_event_time,
    smoothed_x,
    smoothed_y,
    neutral_y,
    hand_presence_start,
    hand_lost_frames,
    swipe_last,             \* observer: time of the latest swipe record
    swipe_gap,              \* observer: time between the latest two swipes
    \* ---- pose classifiers ----
    hand_in,                \* the hand frame handed to is_fist and is_open
    hand_out,               \* what they returned for it
    \* ---- head of the frame loop ----
    consecutive_failures,   \* unified_engine only
    cam_open,               \* cap.isOpened()
    error_out,              \* observer: {"error": ...} records of the loop head
    fail_run,               \* observer: failed reads since the last good one
    \* ---- whole tick of unified_engine ----
    gpc,                    \* position of the tick among its classifiers
    last_macro_time,
    tick_start,             \* observer: current_state when the tick began
    gate_ev,                \* observer: for each classifier current_state at
                            \* the time it acted in this tick, or "no"
    \* ---- snap of gesture_engine ----
    snap_prepared,
    last_snap_time,
    snap_ev,                \* observer: what the latest hand frame did
    \* ---- face block of unified_engine ----
    wink_dwell_counter,
    last_wink_time,
    last_tilt_time,
    left_blink_ema,
    right_blink_ema,
    wink_ev,                \* observer: what the latest face frame did
    \* ---- posture ----
    posture_engine,         \* "posture", "unified" (kineticode) or "lrs"
                            \* (left-right-swiping/unified_engine.py)
    neutral_neck_dist,
    neutral_shoulder_y,
    current_posture,        \* current_posture; current_state in posture_engine
    posture_start_time,
    posture_ev,             \* observer: what the latest pose frame did
    \* ---- undo gesture and whole-tick observer of unified_engine ----
    undo_state,
    undo_touch_start,
    last_undo_time,
    tick_ev,                \* observer: what the hand block of the latest
                            \* tick saw and did
    macro_last,             \* observer: time of the latest macro record
    ok_since,               \* observer: time of the first of the latest
                            \* ticks that all showed the OK gesture
    \* ---- one run of an engine, from main() to its return ----
    run_engine,             \* which program runs
    run_pc,                 \* position of main()
    run_out,                \* the JSON records printed so far, by kind
    \* ---- threads started by perform_git_push_async ----
    push_tasks,             \* the tasks that run: the number of each
    push_results,           \* the tasks that printed their git_push record,
                            \* in the order of the records
    push_count,             \* tasks started so far
    \* ---- exceptions in the frame loop of unified_engine ----
    loop_alive,             \* main() is still in its frame loop
    run_flags,              \* args.hands, args.posture, args.face
    fault_ev,               \* observer: what became of each block in the
                            \* latest tick that reached it
    fault_ticks,            \* observer: ticks that ran to their end
    \* ---- a moving average on a constant input ----
    ema_of,                 \* "palm" (smoothed_x) or "blink" (left_blink_ema)
    ema_input,              \* the sample every frame brings
    ema_start,              \* the average before the first of the frames
    ema_exp,                \* the average is held in units of 10^-ema_exp
    ema_frames              \* frames so far

cpVars == <<engine, current_state, shutdown_flag, fist_frames, open_frames,
            was_fist_previously, last_cp_action_time, current_time, pc, lpc>>
cpObs == <<last_sel, emit_last, emit_gap, copies, scen_fists, fist_since_copy,
           paste_read, fist_run, open_run, fist_matches, open_matches>>
pushVars == <<push_engine, extension, push_state, neutral_dist, last_push_time,
              push_start_time, confirmation_start_time, pose_ev, last_confirm>>
swipeVars == <<can_trigger, last_event_time, smoothed_x, smoothed_y, neutral_y,
               hand_presence_start, hand_lost_frames, swipe_last, swipe_gap>>
handVars == <<hand_in, hand_out>>
loopVars == <<consecutive_failures, cam_open, error_out, fail_run>>
gateVars == <<gpc, last_macro_time, tick_start, gate_ev>>
snapVars == <<snap_prepared, last_snap_time, snap_ev>>
faceVars == <<wink_dwell_counter, last_wink_time, last_tilt_time,
              left_blink_ema, right_blink_ema, wink_ev>>
postureVars == <<posture_engine, neutral_neck_dist, neutral_shoulder_y,
                 current_posture, posture_start_time, posture_ev>>
undoVars == <<undo_state, undo_touch_start, last_undo_time, tick_ev,
             macro_last, ok_since>>
moreVars == <<snapVars, faceVars, postureVars, undoVars>>
sessVars == <<run_engine, run_pc, run_out>>
taskVars == <<push_tasks, push_results, push_count>>
faultVars == <<loop_alive, run_flags, fault_ev, fault_ticks>>
emaVars == <<ema_of, ema_input, ema_start, ema_exp, ema_frames>>
runVars == <<sessVars, taskVars, faultVars, emaVars>>
auxVars == <<handVars, runVars, loopVars, gateVars, moreVars>>
vars == <<now, cpVars, cpObs, pushVars, swipeVars, auxVars>>

\* Python's None for the optional numbers.
None == -1

Max(a, b) == IF a >= b THEN a ELSE b
Min(a, b) == IF a <= b THEN a ELSE b

-----------------------------------------------------------------------------
(***************************************************************************)
(* Copy/paste flow.                                                        *)
(***************************************************************************)

STATE_IDLE == "IDLE"
STATE_AWAITING_COPY == "AWAITING_COPY"
STATE_AWAITING_PASTE == "AWAITING_PASTE"

\* Durations in units of 0.5 s.
REQUIRED_FRAMES == 3
action_cooldown == 3

\* Bounds of the copy/paste model.
CpHorizon == 4          \* clock units the copy/paste model runs for
MaxCount == 4           \* the frame loop stops feeding a counter at this value

CpStart == action_cooldown + 1
CpEnd == CpStart + CpHorizon

\* A hand frame as the classifiers see it: for each of the four fingers
\* (index, middle, ring, pinky) the wrist-to-MCP and wrist-to-tip distances.
Fingers == 1..4
\* A hand whose MCPs are all m from the wrist, with its first k fingers
\* stretched (tip 20 from the wrist) and the others curled (tip 10).
Hand(m, k) ==
    [mcp |-> [i \in Fingers |-> m],
     tip |-> [i \in Fingers |-> IF i <= k THEN 20 ELSE 10]]
\* Hands of size 10 with 0 to 4 fingers stretched, and one hand of size 0.
HandFrames == { Hand(10, k) : k \in 0..4 } \cup { Hand(0, 0) }
\* get_hand_size: wrist to landmark 9, the MCP of the middle finger.
get_hand_size(hl) == hl.mcp[2]

is_fist(hl) ==
    /\ get_hand_size(hl) # 0
    /\ \A i \in Fingers :
          ~ ( 10 * hl.tip[i] > 11 * hl.mcp[i]
              \/ 10 * hl.tip[i] > 18 * get_hand_size(hl) )

\* is_open with "or" in place of "and" between the two tests of a finger.
is_open_Either(hl) ==
    /\ get_hand_size(hl) # 0
    /\ Cardinality({ i \in Fingers :
                        \/ 100 * hl.tip[i] > 115 * hl.mcp[i]
                        \/ 10 * hl.tip[i] > 14 * get_hand_size(hl) }) >= 3

is_open(hl) ==
    /\ get_hand_size(hl) # 0
    /\ Cardinality({ i \in Fingers :
                        /\ 100 * hl.tip[i] > 115 * hl.mcp[i]
                        /\ 10 * hl.tip[i] > 14 * get_hand_size(hl) }) >= 3

\* The kind of a hand frame, in the order the if/elif of the loop tests it.
FrameKind(hl) ==
    IF is_fist(hl) THEN "fist" ELSE IF is_open(hl) THEN "open" ELSE "none"

\* The counter updates of the debounce block.
FistCount_Double(ff, hl) ==
    IF is_fist(hl) THEN ff + 2 ELSE Max(0, ff - 1)
FistCount(ff, hl) ==
    IF is_fist(hl) THEN ff + 1 ELSE Max(0, ff - 1)

\* The open counter cleared, not decremented, by a fist frame.
OpenCount_Reset(of, hl) ==
    IF is_fist(hl) THEN 0
    ELSE IF is_open(hl) THEN of + 1 ELSE Max(0, of - 1)
OpenCount(of, hl) ==
    IF is_fist(hl) THEN Max(0, of - 1)
    ELSE IF is_open(hl) THEN of + 1 ELSE Max(0, of - 1)

is_stable_fist == fist_frames >= REQUIRED_FRAMES
is_stable_open == open_frames >= REQUIRED_FRAMES

CooldownElapsed_NoTest(t, last) == TRUE
CooldownElapsed(t, last) == t - last > action_cooldown

\* Inbound lines: a JSON object with its "event" and "hasSelection" fields
\* (hasSelection true or false, absent, or a value that is no boolean and
\* that Python takes for true, such as 1 or "yes", or for false, such as 0 or
\* null), JSON that is no object, or a line json.loads rejects.
Inbound ==
    { [event |-> "selection_changed", hasSelection |-> h] :
        h \in {"true", "false", "absent", "truthy", "falsy"} }
    \cup { [event |-> e, hasSelection |-> "absent"] :
              e \in {"other", "nonobject", "malformed"} }

\* msg.get("hasSelection", False), tested for truth.
has_selection(msg) == msg.hasSelection \in {"true", "truthy"}

\* The record has exactly the shape {"event": "selection_changed",
\* "hasSelection": <bool>}.
WellFormed(msg) ==
    msg.event = "selection_changed" /\ msg.hasSelection \in {"true", "false"}

\* The scenario of the copy test is under way: scen_fists counts its frames.
scen == scen_fists # None

InitCP ==
    /\ engine \in {"unified", "copy_paste"}
    /\ current_state = STATE_IDLE
    /\ shutdown_flag = FALSE
    /\ fist_frames = 0
    /\ open_frames = 0
    /\ was_fist_previously = FALSE
    /\ last_cp_action_time = 0
    /\ current_time = 0
    /\ pc = "top"
    /\ lpc = "read"
    /\ last_sel = "none"
    /\ emit_last = None
    /\ emit_gap = None
    /\ copies = 0
    /\ scen_fists = None
    /\ fist_since_copy = FALSE
    /\ paste_read = "none"
    /\ fist_run = 0
    /\ open_run = 0
    /\ fist_matches = 0
    /\ open_matches = 0

\* What the observer last_confirm holds before the first confirmed push.
NoConfirm == [frame |-> None, done |-> None]

\* What the observer pose_ev holds before the first pose tick.
NoPoseEvent ==
    [kind |-> "none", pre |-> "MONITORING", warm |-> FALSE, low |-> FALSE,
     cooled |-> FALSE, rested |-> FALSE, hands_up |-> FALSE, late |-> FALSE, out |-> <<>>,
     pushes |-> 0, t |-> 0, gap |-> None]

\* The fields of the other flows, parked.
ParkedCP ==
    /\ InitCP
    /\ engine = "unified"

ParkedPush ==
    /\ push_engine = "unified"
    /\ extension = FALSE
    /\ push_state = "MONITORING"
    /\ neutral_dist = None
    /\ last_push_time = 0
    /\ push_start_time = 0
    /\ confirmation_start_time = 0
    /\ pose_ev = NoPoseEvent
    /\ last_confirm = NoConfirm

ParkedSwipe ==
    /\ can_trigger = TRUE
    /\ last_event_time = 0
    /\ smoothed_x = None
    /\ smoothed_y = None
    /\ neutral_y = None
    /\ hand_presence_start = None
    /\ hand_lost_frames = 0
    /\ swipe_last = None
    /\ swipe_gap = None

\* hand_out before the classifiers were called.
NoVerdict == [done |-> FALSE, fist |-> FALSE, open |-> FALSE]

ParkedHand ==
    /\ hand_in = Hand(10, 0)
    /\ hand_out = NoVerdict

ParkedLoop ==
    /\ consecutive_failures = 0
    /\ cam_open = TRUE
    /\ error_out = 0
    /\ fail_run = 0

\* gate_ev at the start of a tick.
NoGateEvent == [macro |-> "no", push |-> "no", face |-> "no"]

ParkedGate ==
    /\ gpc = "top"
    /\ last_macro_time = 0
    /\ tick_start = "none"
    /\ gate_ev = NoGateEvent

\* snap_ev before the first hand frame.
NoSnapEvent ==
    [kind |-> "none", close |-> FALSE, far |-> FALSE, engaged |-> FALSE,
     armed |-> FALSE, cooled |-> FALSE, emitted |-> FALSE, at |-> None,
     since |-> None, reset |-> FALSE]

ParkedSnap ==
    /\ snap_prepared = FALSE
    /\ last_snap_time = 0
    /\ snap_ev = NoSnapEvent

\* wink_ev before the first face frame.
NoWinkEvent ==
    [kind |-> "none", winking |-> FALSE, pre |-> 0, out |-> <<>>]

ParkedFace ==
    /\ wink_dwell_counter = 0
    /\ last_wink_time = 0
    /\ last_tilt_time = 0
    /\ left_blink_ema = 0
    /\ right_blink_ema = 0
    /\ wink_ev = NoWinkEvent

\* posture_ev before the first pose frame.
NoPostureEvent == [kind |-> "none", state |-> "none", pre |-> "upright",
                   out |-> <<>>]

ParkedPosture ==
    /\ posture_engine = "unified"
    /\ neutral_neck_dist = None
    /\ neutral_shoulder_y = None
    /\ current_posture = "upright"
    /\ posture_start_time = 0
    /\ posture_ev = NoPostureEvent

UNDO_STATE_IDLE == "IDLE"
UNDO_STATE_TOUCH == "TOUCH"

\* tick_ev before the first tick.
NoTickEvent ==
    [kind |-> "none", size |-> 0, fist |-> FALSE, open |-> FALSE,
     ok |-> FALSE, macro |-> "none", ff |-> 0, of |-> 0, out |-> <<>>]

ParkedUndo ==
    /\ undo_state = UNDO_STATE_IDLE
    /\ undo_touch_start = 0
    /\ last_undo_time = 0
    /\ tick_ev = NoTickEvent
    /\ macro_last = None
    /\ ok_since = None

ParkedMore == ParkedSnap /\ ParkedFace /\ ParkedPosture /\ ParkedUndo

\* fault_ev before the first tick.
NoFaultEvent == [hand |-> "idle", pose |-> "idle", face |-> "idle"]

ParkedFault ==
    /\ loop_alive = TRUE
    /\ run_flags = [hands |-> TRUE, posture |-> TRUE, face |-> TRUE]
    /\ fault_ev = NoFaultEvent
    /\ fault_ticks = 0

ParkedSession ==
    /\ run_engine = "unified"
    /\ run_pc = "main"
    /\ run_out = <<>>
    /\ push_tasks = {}
    /\ push_results = <<>>
    /\ push_count = 0

ParkedEma ==
    /\ ema_of = "palm"
    /\ ema_input = 0
    /\ ema_start = None
    /\ ema_exp = 0
    /\ ema_frames = 0

ParkedRun == ParkedSession /\ ParkedFault /\ ParkedEma

ParkedAux == ParkedHand /\ ParkedRun /\ ParkedLoop /\ ParkedGate /\ ParkedMore

\* Length of the run of matching frames that ends with this one, and matching
\* frames since the counter was last 0; both saturate at REQUIRED_FRAMES.
Run(r, matched) == IF matched THEN Min(r + 1, REQUIRED_FRAMES) ELSE 0

Matches(m, counter, matched) ==
    IF counter = 0 THEN 0
    ELSE IF matched THEN Min(m + 1, REQUIRED_FRAMES) ELSE m

\* A record goes out at tick time t.
Gap(t) == IF emit_last = None THEN None ELSE Min(t - emit_last, action_cooldown + 1)

\* The while test without its "and not shutdown_flag".
LoopExit_NoFlagTest ==
    /\ pc = "top"
    /\ FALSE
    /\ UNCHANGED vars

\* while cap.isOpened() and not shutdown_flag: the loop ends.
LoopExit ==
    /\ pc = "top"
    /\ shutdown_flag
    /\ pc' = "done"
    /\ UNCHANGED <<now, engine, current_state, shutdown_flag, fist_frames,
                   open_frames, was_fist_previously, last_cp_action_time,
                   current_time, lpc, cpObs, pushVars, swipeVars, auxVars>>

\* if current_time - last_cp_action_time > action_cooldown:
\*     if current_state == STATE_AWAITING_COPY: if is_stable_fist: ...
\*     elif ...
\* the position the loop goes to, with the counters ff and of of this tick.
CopyBranch(t, ff) ==
    IF ~ CooldownElapsed(t, last_cp_action_time) THEN "top"
    ELSE IF current_state = STATE_AWAITING_COPY
         THEN (IF ff >= REQUIRED_FRAMES THEN "copy_print" ELSE "top")
         ELSE "paste_check"

\* One frame with a hand, from cap.read() to the test of current_state:
\* the time is taken, the hand classified, the two counters updated and the
\* cooldown and the state tested.  Up to the test of current_state the tick
\* touches nothing the listener shares.
HandFrame(hl) ==
    /\ pc = "top"
    /\ ~ shutdown_flag
    /\ FistCount(fist_frames, hl) <= MaxCount
    /\ OpenCount(open_frames, hl) <= MaxCount
    /\ fist_frames' = FistCount(fist_frames, hl)
    /\ open_frames' = OpenCount(open_frames, hl)
    /\ pc' = CopyBranch(now, fist_frames')
    /\ current_time' = IF pc' = "top" THEN 0 ELSE now
    /\ fist_run' = Run(fist_run, FrameKind(hl) = "fist")
    /\ open_run' = Run(open_run, FrameKind(hl) = "open")
    /\ fist_matches' = Matches(fist_matches, fist_frames', FrameKind(hl) = "fist")
    /\ open_matches' = Matches(open_matches, open_frames', FrameKind(hl) = "open")
    /\ scen_fists' = IF scen /\ FrameKind(hl) = "fist"
                     THEN Min(scen_fists + 1, REQUIRED_FRAMES + 1) ELSE None
    /\ copies' = IF scen_fists' # None THEN copies ELSE 0
    /\ last_sel' = IF last_sel = "true" THEN "seen" ELSE last_sel
    /\ UNCHANGED <<now, engine, current_state, shutdown_flag,
                   was_fist_previously, last_cp_action_time, lpc,
                   emit_last, emit_gap, fist_since_copy, paste_read,
                   pushVars, swipeVars, auxVars>>

\* elif current_state == STATE_AWAITING_PASTE:
\*     if is_stable_fist: was_fist_previously = True
\*     if was_fist_previously and is_stable_open:
PasteArmed(was) == was \/ is_stable_fist

PasteDue_NoFist(was) == is_stable_open
PasteDue(was) == was /\ is_stable_open

CheckPaste ==
    /\ pc = "paste_check"
    /\ IF current_state = STATE_AWAITING_PASTE
       THEN /\ was_fist_previously' = PasteArmed(was_fist_previously)
            /\ fist_since_copy' = (fist_since_copy \/ is_stable_fist)
            /\ pc' = IF PasteDue(was_fist_previously')
                     THEN "paste_print" ELSE "top"
            /\ paste_read' = IF PasteDue(was_fist_previously')
                             THEN current_state ELSE paste_read
       ELSE /\ pc' = "top"
            /\ UNCHANGED <<was_fist_previously, fist_since_copy, paste_read>>
    /\ current_time' = IF pc' = "top" THEN 0 ELSE current_time
    /\ UNCHANGED <<now, engine, current_state, shutdown_flag, fist_frames,
                   open_frames, last_cp_action_time, lpc, last_sel,
                   emit_last, emit_gap, copies, scen_fists, fist_run, open_run,
                   fist_matches, open_matches, pushVars, swipeVars, auxVars>>

\* print(json.dumps({"action": "copy"}), flush=True)
PrintCopy ==
    /\ pc = "copy_print"
    /\ pc' = "copy_set"
    /\ emit_gap' = Gap(current_time)
    /\ emit_last' = current_time
    /\ copies' = IF scen THEN Min(copies + 1, 2) ELSE copies
    /\ UNCHANGED <<now, engine, current_state, shutdown_flag, fist_frames,
                   open_frames, was_fist_previously, last_cp_action_time,
                   current_time, lpc, last_sel, scen_fists, fist_since_copy,
                   paste_read, fist_run, open_run, fist_matches, open_matches,
                   pushVars, swipeVars, auxVars>>

\* The time an action stamps: current_time in unified_engine, a fresh
\* time.time() in copy_paste_engine.
StampTime == IF engine = "unified" THEN current_time ELSE now

\* current_state = STATE_AWAITING_PASTE; last_cp_action_time = current_time;
\* was_fist_previously = False
AfterCopy_Stay == STATE_AWAITING_COPY
AfterCopy == STATE_AWAITING_PASTE

SetCopy ==
    /\ pc = "copy_set"
    /\ current_state' = AfterCopy
    /\ last_cp_action_time' = StampTime
    /\ was_fist_previously' = FALSE
    /\ fist_since_copy' = FALSE
    /\ pc' = "top"
    /\ current_time' = 0
    /\ UNCHANGED <<now, engine, shutdown_flag, fist_frames, open_frames, lpc,
                   last_sel, emit_last, emit_gap, copies, scen_fists,
                   paste_read, fist_run, open_run, fist_matches,
                   open_matches, pushVars, swipeVars, auxVars>>

\* print(json.dumps({"action": "paste"}), flush=True)
PrintPaste ==
    /\ pc = "paste_print"
    /\ pc' = "paste_set"
    /\ emit_gap' = Gap(current_time)
    /\ emit_last' = current_time
    /\ UNCHANGED <<now, engine, current_state, shutdown_flag, fist_frames,
                   open_frames, was_fist_previously, last_cp_action_time,
                   current_time, lpc, last_sel, copies, scen_fists,
                   fist_since_copy, paste_read, fist_run, open_run,
                   fist_matches, open_matches, pushVars, swipeVars, auxVars>>

\* current_state = STATE_IDLE; last_cp_action_time = current_time;
\* was_fist_previously = False
SetPaste ==
    /\ pc = "paste_set"
    /\ current_state' = STATE_IDLE
    /\ last_cp_action_time' = StampTime
    /\ was_fist_previously' = FALSE
    /\ paste_read' = "none"
    /\ pc' = "top"
    /\ current_time' = 0
    /\ UNCHANGED <<now, engine, shutdown_flag, fist_frames, open_frames, lpc,
                   last_sel, emit_last, emit_gap, copies, scen_fists,
                   fist_since_copy, fist_run, open_run, fist_matches,
                   open_matches, pushVars, swipeVars, auxVars>>

\* The frame loop is between its test of the state and the end of the
\* action it decided on.
Emitting == pc \in {"copy_print", "copy_set", "paste_print", "paste_set"}

\* read_stdin, a selection_changed record.  With hasSelection true the state
\* is stored at once; otherwise the state is compared first and the store of
\* STATE_IDLE is a second step of the thread.
ReadSelection(msg) ==
    /\ lpc = "read"
    /\ msg.event = "selection_changed"
    /\ last_sel' = IF WellFormed(msg)
                   THEN IF has_selection(msg) THEN "true"
                        ELSE IF current_state = STATE_AWAITING_COPY THEN "false"
                        ELSE "noop"
                   ELSE IF has_selection(msg) THEN "bad_true" ELSE "bad_false"
    /\ IF has_selection(msg)
       THEN /\ current_state' = STATE_AWAITING_COPY
            /\ lpc' = lpc
       ELSE /\ current_state' = current_state
            /\ lpc' = IF current_state = STATE_AWAITING_COPY
                      THEN "set_idle" ELSE lpc
    /\ scen_fists' = IF /\ has_selection(msg)
                        /\ current_state = STATE_IDLE
                        /\ fist_frames = 0
                        /\ now - last_cp_action_time > action_cooldown
                        /\ ~ Emitting
                     THEN 0 ELSE None
    /\ copies' = 0
    /\ UNCHANGED <<now, engine, shutdown_flag, fist_frames, open_frames,
                   was_fist_previously, last_cp_action_time, current_time, pc,
                   emit_last, emit_gap, fist_since_copy, paste_read, fist_run,
                   open_run, fist_matches, open_matches, pushVars, swipeVars, auxVars>>

SetIdle ==
    /\ lpc = "set_idle"
    /\ current_state' = STATE_IDLE
    /\ lpc' = "read"
    /\ last_sel' = IF last_sel = "bad_false" THEN "bad_cancel"
                   ELSE IF pc = "copy_set" THEN "cancel_late" ELSE "cancel"
    /\ UNCHANGED <<now, engine, shutdown_flag, fist_frames, open_frames,
                   was_fist_previously, last_cp_action_time, current_time, pc,
                   emit_last, emit_gap, copies, scen_fists, fist_since_copy,
                   paste_read, fist_run, open_run, fist_matches, open_matches,
                   pushVars, swipeVars, auxVars>>

\* read_stdin, any other line: another event, or json.loads or msg.get
\* raises and the except clause inside the while loop swallows it.
ReadIgnored_Dies(msg) ==
    /\ lpc = "read"
    /\ msg.event # "selection_changed"
    /\ last_sel' = IF msg.event = "other" THEN "other" ELSE "unparsable"
    /\ lpc' = IF msg.event = "other" THEN lpc ELSE "stopped"
    /\ UNCHANGED <<now, engine, current_state, shutdown_flag, fist_frames,
                   open_frames, was_fist_previously, last_cp_action_time,
                   current_time, pc, emit_last, emit_gap, copies, scen_fists,
                   fist_since_copy, paste_read, fist_run, open_run,
                   fist_matches, open_matches, pushVars, swipeVars, auxVars>>
ReadIgnored(msg) ==
    /\ lpc = "read"
    /\ msg.event # "selection_changed"
    /\ last_sel' = IF msg.event = "other" THEN "other" ELSE "unparsable"
    /\ UNCHANGED <<now, cpVars, emit_last, emit_gap, copies, scen_fists,
                   fist_since_copy, paste_read, fist_run, open_run,
                   fist_matches, open_matches, pushVars, swipeVars, auxVars>>

\* read_stdin, readline returns "": shutdown_flag = True; break
ReadEOF ==
    /\ lpc = "read"
    /\ shutdown_flag' = TRUE
    /\ lpc' = "stopped"
    /\ UNCHANGED <<now, engine, current_state, fist_frames, open_frames,
                   was_fist_previously, last_cp_action_time, current_time, pc,
                   cpObs, pushVars, swipeVars, auxVars>>

ClockCP ==
    /\ now < CpEnd
    /\ now' = now + 1
    /\ UNCHANGED <<cpVars, cpObs, pushVars, swipeVars, auxVars>>

Init ==
    /\ now = CpStart
    /\ InitCP
    /\ ParkedPush
    /\ ParkedSwipe
    /\ ParkedAux

Next ==
    \/ LoopExit
    \/ \E hl \in HandFrames : HandFrame(hl)
    \/ CheckPaste
    \/ PrintCopy
    \/ SetCopy
    \/ PrintPaste
    \/ SetPaste
    \/ \E msg \in Inbound : ReadSelection(msg)
    \/ SetIdle
    \/ \E msg \in Inbound : ReadIgnored(msg)
    \/ ReadEOF
    \/ ClockCP

Spec == Init /\ [][Next]_vars

-----------------------------------------------------------------------------
(***************************************************************************)
(* Push/confirm flow: the pose block of unified_engine.py (--push) and the *)
(* main loop of push_engine.py.  Durations in seconds.                     *)
(***************************************************************************)

PUSH_STATE_MONITORING == "MONITORING"
PUSH_STATE_AWAITING_CONFIRMATION == "AWAITING_CONFIRMATION"

CONFIRM_TIMEOUT == 10
PUSH_THRESHOLD == 85        \* 0.85, in hundredths
PUSH_COOLDOWN == 5
WARMUP_TIME == 2

\* Bounds of the push model.
PushHorizon == 14           \* clock units the push model runs for
PushLag == 1                \* longest time a git push holds the tick

PushStart == PUSH_COOLDOWN + 1
PushEnd == PushStart + PushHorizon

\* A pose frame: the distance between the eyes, the y of the nose, of the
\* shoulder midline and of the two wrists (y grows downwards).
PoseFrames ==
    { [eye_dist |-> e, nose_y |-> 30, sy |-> 50, lw_y |-> l, rw_y |-> r] :
        e \in {16, 20}, l \in {20, 40, 60}, r \in {20, 40, 60} }

\* neutral_dist = 0.1 * eye_dist + 0.9 * neutral_dist, from None the sample.
Calibrate(nd, eye_dist) ==
    IF nd = None THEN eye_dist ELSE (eye_dist + 9 * nd) \div 10

\* ratio = eye_dist / neutral_dist if neutral_dist else 1.0;
\* ratio < PUSH_THRESHOLD
RatioLow(eye_dist, nd) ==
    IF nd = None \/ nd = 0 THEN FALSE
    ELSE 100 * eye_dist < PUSH_THRESHOLD * nd

\* time.time() - last_push_time > PUSH_COOLDOWN
PushCooled_NoTest(t, last) == TRUE
PushCooled_WrongLimit(t, last) == t - last > CONFIRM_TIMEOUT
PushCooled(t, last) == t - last > PUSH_COOLDOWN

\* hands_up: both wrists above the shoulder midline in unified_engine,
\* above the nose in push_engine.
RefY(pl) == IF push_engine = "unified" THEN pl.sy ELSE pl.nose_y

HandsUp(pl) == pl.lw_y < RefY(pl) /\ pl.rw_y < RefY(pl)

\* The records the tick prints.  unified_engine prints its status records in
\* extension mode only; push_engine prints them in every mode and prints the
\* git_push action itself, while unified_engine leaves that record to the
\* thread that runs the push.
StatusOut(name) ==
    IF push_engine = "push" \/ extension THEN << name >> ELSE <<>>

EnterOut == StatusOut("status:awaiting_confirmation")

ConfirmOut ==
    IF push_engine = "push" THEN << "action:git_push" >>
    ELSE StatusOut("status:pushing_in_progress")

TimeoutOut_Silent == <<>>
TimeoutOut ==
    IF push_engine = "unified" /\ extension
    THEN << "status:push_aborted" >> ELSE <<>>

\* Observers on last_confirm, which holds the time of the latest confirming
\* frame and the time its push was over: more than PUSH_COOLDOWN has passed
\* since the frame, since the end of the push.
Cooled == last_confirm = NoConfirm \/ now - last_confirm.frame > PUSH_COOLDOWN

Rested == last_confirm = NoConfirm \/ now - last_confirm.done > PUSH_COOLDOWN

InitPush ==
    /\ push_engine \in {"unified", "push"}
    /\ extension \in BOOLEAN
    /\ push_state = PUSH_STATE_MONITORING
    /\ neutral_dist = None
    /\ last_push_time = 0
    /\ push_start_time = PushStart
    /\ confirmation_start_time = 0
    /\ pose_ev = NoPoseEvent
    /\ last_confirm = NoConfirm

\* Time since the latest entry into AWAITING_CONFIRMATION, None before the
\* first; it saturates above PUSH_COOLDOWN.
SinceEntry ==
    IF confirmation_start_time = 0 THEN None
    ELSE Min(now - confirmation_start_time, PUSH_COOLDOWN + 1)

\* What the observer holds after a pose tick on frame pl; t is the time of
\* the tick if it entered AWAITING_CONFIRMATION, else 0.
PoseEvent(pl, out, pushes, t) ==
    [kind |-> "pose", pre |-> push_state,
     warm |-> ~ (now - push_start_time < WARMUP_TIME),
     low |-> RatioLow(pl.eye_dist, neutral_dist),
     cooled |-> Cooled, rested |-> Rested,
     hands_up |-> HandsUp(pl),
     late |-> now - confirmation_start_time > CONFIRM_TIMEOUT,
     out |-> out, pushes |-> pushes, t |-> t,
     gap |-> SinceEntry]

\* A tick without a processed pose: no pose landmarks, fewer than 21 of them,
\* or (unified_engine) the pose block skipped in STATE_AWAITING_COPY.
PoseAbsent ==
    /\ pose_ev' = [NoPoseEvent EXCEPT !.kind = "skipped", !.pre = push_state]
    /\ UNCHANGED <<now, cpVars, cpObs, push_engine, extension, push_state,
                   neutral_dist, last_push_time, push_start_time,
                   confirmation_start_time, last_confirm, swipeVars, auxVars>>

\* if time.time() - push_start_time < WARMUP_TIME: calibrate neutral_dist
Warmup(pl) ==
    /\ now - push_start_time < WARMUP_TIME
    /\ neutral_dist' = Calibrate(neutral_dist, pl.eye_dist)
    /\ pose_ev' = PoseEvent(pl, <<>>, 0, 0)
    /\ UNCHANGED <<now, cpVars, cpObs, push_engine, extension, push_state,
                   last_push_time, push_start_time, confirmation_start_time,
                   last_confirm, swipeVars, auxVars>>

\* if push_state == PUSH_STATE_MONITORING:
\*     if ratio < PUSH_THRESHOLD and time.time() - last_push_time > PUSH_COOLDOWN:
Monitor(pl) ==
    /\ ~ (now - push_start_time < WARMUP_TIME)
    /\ push_state = PUSH_STATE_MONITORING
    /\ IF RatioLow(pl.eye_dist, neutral_dist) /\ PushCooled(now, last_push_time)
       THEN /\ push_state' = PUSH_STATE_AWAITING_CONFIRMATION
            /\ confirmation_start_time' = now
            /\ pose_ev' = PoseEvent(pl, EnterOut, 0, now)
       ELSE /\ pose_ev' = PoseEvent(pl, <<>>, 0, 0)
            /\ UNCHANGED <<push_state, confirmation_start_time>>
    /\ UNCHANGED <<now, cpVars, cpObs, push_engine, extension, neutral_dist,
                   last_push_time, push_start_time, last_confirm, swipeVars, auxVars>>

\* elif push_state == PUSH_STATE_AWAITING_CONFIRMATION: if hands_up:
\* the push is started (push_engine runs it to its end), then
\* last_push_time = time.time(); push_state = PUSH_STATE_MONITORING
Confirm(pl, lag) ==
    /\ ~ (now - push_start_time < WARMUP_TIME)
    /\ push_state = PUSH_STATE_AWAITING_CONFIRMATION
    /\ HandsUp(pl)
    /\ now + lag <= PushEnd
    /\ now' = now + lag
    /\ last_push_time' = now'
    /\ last_confirm' = [frame |-> now, done |-> now']
    /\ push_state' = PUSH_STATE_MONITORING
    /\ pose_ev' = PoseEvent(pl, ConfirmOut, 1, 0)
    /\ UNCHANGED <<cpVars, cpObs, push_engine, extension, neutral_dist,
                   push_start_time, confirmation_start_time, swipeVars, auxVars>>

\* elif elapsed > CONFIRM_TIMEOUT: push_state = PUSH_STATE_MONITORING
\* else: the tick waits
Await(pl) ==
    /\ ~ (now - push_start_time < WARMUP_TIME)
    /\ push_state = PUSH_STATE_AWAITING_CONFIRMATION
    /\ ~ HandsUp(pl)
    /\ IF now - confirmation_start_time > CONFIRM_TIMEOUT
       THEN /\ push_state' = PUSH_STATE_MONITORING
            /\ pose_ev' = PoseEvent(pl, TimeoutOut, 0, 0)
       ELSE /\ push_state' = push_state
            /\ pose_ev' = PoseEvent(pl, <<>>, 0, 0)
    /\ UNCHANGED <<now, cpVars, cpObs, push_engine, extension, neutral_dist,
                   last_push_time, push_start_time, confirmation_start_time,
                   last_confirm, swipeVars, auxVars>>

ClockPush ==
    /\ now < PushEnd
    /\ now' = now + 1
    /\ UNCHANGED <<cpVars, cpObs, pushVars, swipeVars, auxVars>>

InitP ==
    /\ now = PushStart
    /\ ParkedCP
    /\ InitPush
    /\ ParkedSwipe
    /\ ParkedAux

NextPush ==
    \/ PoseAbsent
    \/ \E pl \in PoseFrames : Warmup(pl)
    \/ \E pl \in PoseFrames : Monitor(pl)
    \/ \E pl \in PoseFrames, lag \in 0..PushLag : Confirm(pl, lag)
    \/ \E pl \in PoseFrames : Await(pl)
    \/ ClockPush

SpecPush == InitP /\ [][NextPush]_vars

-----------------------------------------------------------------------------
(***************************************************************************)
(* Zone-based swipe logic: the main loop of gesture_engine.py.  Durations  *)
(* in units of 0.05 s, coordinates in twentieths of the frame width.       *)
(***************************************************************************)

COOLDOWN == 7
AUTO_REPEAT_DELAY == 8
NEUTRAL_ZONE == <<7, 13>>
LEFT_ZONE == 6
RIGHT_ZONE == 14
LOST_FRAME_LIMIT == 5

\* Bounds of the swipe model.
SwipeHorizon == 9           \* clock units the swipe model runs for
MaxLost == 6                \* most consecutive frames without a hand

SwipeStart == AUTO_REPEAT_DELAY + 1
SwipeEnd == SwipeStart + SwipeHorizon

\* A detected hand: the x and y of the wrist (landmark 0), the index base
\* (landmark 5) and the pinky base (landmark 17).
SwipeHands ==
    { [x |-> <<a, a, a>>, y |-> <<10, 10, 10>>] : a \in {0, 10, 20} }

palm_center_x(hl) == (hl.x[1] + hl.x[2] + hl.x[3]) \div 3
palm_center_y(hl) == (hl.y[1] + hl.y[2] + hl.y[3]) \div 3

\* EMA_ALPHA * sample + (1 - EMA_ALPHA) * smoothed, with EMA_ALPHA = 0.3;
\* the first sample is taken as it is.
Smooth(sm, sample) ==
    IF sm = None THEN sample ELSE (3 * sample + 7 * sm) \div 10

InNeutral(sx) == NEUTRAL_ZONE[1] < sx /\ sx < NEUTRAL_ZONE[2]
InSide(sx) == ~ InNeutral(sx) /\ (sx < LEFT_ZONE \/ sx > RIGHT_ZONE)

\* elif time.time() - last_event_time > AUTO_REPEAT_DELAY
RepeatDue(t, last) == t - last > AUTO_REPEAT_DELAY

\* A side-zone frame emits a swipe when the trigger is armed, else when the
\* repeat delay has run out.
Fires(sx, armed, t, last) == InSide(sx) /\ (armed \/ RepeatDue(t, last))

SwipeGap(t) ==
    IF swipe_last = None THEN None ELSE Min(t - swipe_last, AUTO_REPEAT_DELAY + 1)

InitSwipe == ParkedSwipe

\* The zone logic of a tick with a hand in view (lines 127 to 191).
ZoneStep(hl) ==
    LET sx == Smooth(smoothed_x, palm_center_x(hl))
        sy == Smooth(smoothed_y, palm_center_y(hl))
        fire == Fires(sx, can_trigger, now, last_event_time)
    IN  /\ hand_lost_frames' = 0
        /\ hand_presence_start' =
             IF hand_presence_start = None THEN now ELSE hand_presence_start
        /\ smoothed_x' = sx
        /\ smoothed_y' = sy
        /\ neutral_y' = IF InNeutral(sx) \/ neutral_y = None THEN sy ELSE neutral_y
        /\ can_trigger' = IF InNeutral(sx) THEN TRUE
                          ELSE IF InSide(sx) /\ can_trigger THEN FALSE
                          ELSE can_trigger
        /\ last_event_time' = IF fire THEN now ELSE last_event_time
        /\ swipe_last' = IF fire THEN now ELSE swipe_last
        /\ swipe_gap' = IF fire THEN SwipeGap(now) ELSE swipe_gap

\* if results.hand_landmarks: one tick with a hand in view.
HandSeen(hl) ==
    /\ ZoneStep(hl)
    /\ UNCHANGED <<now, cpVars, cpObs, pushVars, auxVars>>

\* The tracking state cleared on the frame that reaches LOST_FRAME_LIMIT.
HandLost_Eager ==
    /\ hand_lost_frames < MaxLost
    /\ hand_lost_frames' = hand_lost_frames + 1
    /\ IF hand_lost_frames' >= LOST_FRAME_LIMIT
       THEN /\ hand_presence_start' = None
            /\ smoothed_x' = None
            /\ smoothed_y' = None
            /\ neutral_y' = None
            /\ can_trigger' = TRUE
       ELSE UNCHANGED <<hand_presence_start, smoothed_x, smoothed_y,
                        neutral_y, can_trigger>>
    /\ UNCHANGED <<now, cpVars, cpObs, pushVars, auxVars, last_event_time, swipe_last,
                   swipe_gap>>
\* else: hand_lost_frames += 1; past LOST_FRAME_LIMIT the tracking state is
\* cleared and the trigger armed.
HandLost ==
    /\ hand_lost_frames < MaxLost
    /\ hand_lost_frames' = hand_lost_frames + 1
    /\ IF hand_lost_frames' > LOST_FRAME_LIMIT
       THEN /\ hand_presence_start' = None
            /\ smoothed_x' = None
            /\ smoothed_y' = None
            /\ neutral_y' = None
            /\ can_trigger' = TRUE
       ELSE UNCHANGED <<hand_presence_start, smoothed_x, smoothed_y,
                        neutral_y, can_trigger>>
    /\ UNCHANGED <<now, cpVars, cpObs, pushVars, auxVars, last_event_time, swipe_last,
                   swipe_gap>>

ClockSwipe ==
    /\ now < SwipeEnd
    /\ now' = now + 1
    /\ UNCHANGED <<cpVars, cpObs, pushVars, swipeVars, auxVars>>

InitS ==
    /\ now = SwipeStart
    /\ ParkedCP
    /\ ParkedPush
    /\ InitSwipe
    /\ ParkedAux

NextSwipe ==
    \/ \E hl \in SwipeHands : HandSeen(hl)
    \/ HandLost
    \/ ClockSwipe

SpecSwipe == InitS /\ [][NextSwipe]_vars

-----------------------------------------------------------------------------
(***************************************************************************)
(* The pose classifiers is_fist and is_open on their own: a hand frame is  *)
(* drawn and both are called on it.                                        *)
(***************************************************************************)

\* The wrist-to-MCP and wrist-to-tip distances of the frames drawn.  With
\* hand size 10 the tests of a finger change at tip 11 (1.1 x MCP 10),
\* 11.5, 14 and 18; with MCP 20 at 22 and 23.
McpDists == {0, 10, 20}
TipDists == {11, 15, 19, 30}

HandInputs ==
    { [mcp |-> m, tip |-> t] : m \in [Fingers -> McpDists],
                               t \in [Fingers -> TipDists] }

InitHand ==
    /\ hand_in \in HandInputs
    /\ hand_out = NoVerdict

\* is_stable bookkeeping aside, the loop calls is_fist(hl) and is_open(hl)
\* on the same frame.
Classify ==
    /\ ~ hand_out.done
    /\ hand_out' = [done |-> TRUE, fist |-> is_fist(hand_in),
                    open |-> is_open(hand_in)]
    /\ UNCHANGED <<now, cpVars, cpObs, pushVars, swipeVars, moreVars, hand_in,
                   runVars, loopVars, gateVars>>

InitH ==
    /\ now = 0
    /\ ParkedCP
    /\ ParkedPush
    /\ ParkedSwipe
    /\ InitHand
    /\ ParkedRun
    /\ ParkedLoop
    /\ ParkedGate
    /\ ParkedMore

NextHand == Classify

SpecHand == InitH /\ [][NextHand]_vars

-----------------------------------------------------------------------------
(***************************************************************************)
(* Head of the frame loop of unified_engine.py and copy_paste_engine.py:   *)
(* the while test, cap.read() and the handling of a failed read; the rest  *)
(* of a tick, which leaves these variables alone, is one step.  The        *)
(* listener takes part with the end of the inbound stream.                 *)
(***************************************************************************)

\* if consecutive_failures > 30
MaxFailures == 30

InitLoop ==
    /\ consecutive_failures = 0
    /\ cam_open = TRUE
    /\ error_out = 0
    /\ fail_run = 0

\* A failed read in a row more (observer), counted up to MaxFailures + 1.
FailRun(n) == Min(n + 1, MaxFailures + 1)

\* consecutive_failures += 1
Failures_Sticky(cf, success) == cf + (IF success THEN 0 ELSE 1)
Failures(cf, success) == IF success THEN 0 ELSE cf + 1

\* if consecutive_failures > 30: print the error record; break
Escalate(cf) == cf > MaxFailures

\* success, image = cap.read() fails.  unified_engine counts the failure and
\* past MaxFailures prints the error record and breaks, else continues;
\* copy_paste_engine continues at once.
FrameFail ==
    /\ pc = "top"
    /\ cam_open
    /\ ~ shutdown_flag
    /\ fail_run' = FailRun(fail_run)
    /\ IF engine = "unified"
       THEN /\ consecutive_failures' = Failures(consecutive_failures, FALSE)
            /\ IF Escalate(consecutive_failures')
               THEN error_out' = error_out + 1 /\ pc' = "done"
               ELSE error_out' = error_out /\ pc' = "top"
       ELSE UNCHANGED <<consecutive_failures, error_out, pc>>
    /\ UNCHANGED <<now, engine, current_state, shutdown_flag, fist_frames,
                   open_frames, was_fist_previously, last_cp_action_time,
                   current_time, lpc, cpObs, pushVars, swipeVars, moreVars, handVars, runVars, gateVars,
                   cam_open>>

\* The read succeeds: consecutive_failures = 0 (unified_engine) and the tick
\* runs to its end; with the debug window open the quit key breaks the loop.
FrameOk(quit) ==
    /\ pc = "top"
    /\ cam_open
    /\ ~ shutdown_flag
    /\ fail_run' = 0
    /\ consecutive_failures' =
         IF engine = "unified" THEN Failures(consecutive_failures, TRUE)
         ELSE consecutive_failures
    /\ pc' = IF quit THEN "done" ELSE "top"
    /\ UNCHANGED <<now, engine, current_state, shutdown_flag, fist_frames,
                   open_frames, was_fist_previously, last_cp_action_time,
                   current_time, lpc, cpObs, pushVars, swipeVars, moreVars, handVars, runVars, gateVars,
                   cam_open, error_out>>

\* The capture device closes: cap.isOpened() turns false.
CamClose ==
    /\ cam_open
    /\ pc = "top"
    /\ cam_open' = FALSE
    /\ UNCHANGED <<now, cpVars, cpObs, pushVars, swipeVars, moreVars, handVars, runVars, gateVars,
                   consecutive_failures, error_out, fail_run>>

\* while cap.isOpened() and not shutdown_flag: the loop ends on a closed
\* device.
CamExit ==
    /\ pc = "top"
    /\ ~ cam_open
    /\ pc' = "done"
    /\ UNCHANGED <<now, engine, current_state, shutdown_flag, fist_frames,
                   open_frames, was_fist_previously, last_cp_action_time,
                   current_time, lpc, cpObs, pushVars, swipeVars, auxVars>>

InitL ==
    /\ now = CpStart
    /\ InitCP
    /\ ParkedPush
    /\ ParkedSwipe
    /\ ParkedHand
    /\ ParkedRun
    /\ InitLoop
    /\ ParkedGate
    /\ ParkedMore

\* One step of the frame loop.
LoopStep ==
    \/ FrameFail
    \/ \E quit \in BOOLEAN : FrameOk(quit)
    \/ LoopExit
    \/ CamExit

NextLoop ==
    \/ LoopStep
    \/ CamClose
    \/ ReadEOF
    \/ \E msg \in Inbound : ReadIgnored(msg)

SpecLoop == InitL /\ [][NextLoop]_vars

\* The scheduler runs the main thread again and again.
SpecLoopFair == SpecLoop /\ WF_vars(LoopStep)

-----------------------------------------------------------------------------
(***************************************************************************)
(* A whole tick of unified_engine.py with all its classifiers switched on: *)
(* the macro gestures, the copy/paste block, the pose block (push) and the *)
(* face block (wink, head tilt), each behind its own test of              *)
(* current_state, with the listener running beside it.  Durations in units *)
(* of 0.5 s.  The copy/paste block is one step here; its interleavings     *)
(* with the listener are those of Spec.  What the push and face logic do   *)
(* once they run is not repeated here: the tick records that they ran.     *)
(***************************************************************************)

MACRO_COOLDOWN == 3

\* Bound of this model.
GateHorizon == 1            \* clock units the model runs for

GateEnd == CpStart + GateHorizon

\* get_finger_states: thumb, index, middle, ring, pinky up.
Fingerings ==
    { <<FALSE, TRUE, FALSE, FALSE, FALSE>>, <<FALSE, TRUE, TRUE, FALSE, FALSE>>,
      <<TRUE, TRUE, FALSE, FALSE, TRUE>>, <<TRUE, TRUE, FALSE, FALSE, FALSE>>,
      <<FALSE, FALSE, FALSE, FALSE, FALSE>>, <<TRUE, TRUE, TRUE, TRUE, TRUE>> }

\* The four tests of the macro block, each on the finger states f.
MacroMatch(name, f) ==
    CASE name = "gesture_one" -> f = <<FALSE, TRUE, FALSE, FALSE, FALSE>>
      [] name = "gesture_peace" -> SubSeq(f, 2, 5) = <<TRUE, TRUE, FALSE, FALSE>>
      [] name = "gesture_rock" -> SubSeq(f, 2, 5) = <<TRUE, FALSE, FALSE, TRUE>>
      [] name = "gesture_l" -> f = <<TRUE, TRUE, FALSE, FALSE, FALSE>>

\* The macro the four if/elif tests pick.
Macro(f) ==
    IF MacroMatch("gesture_one", f) THEN "gesture_one"
    ELSE IF MacroMatch("gesture_peace", f) THEN "gesture_peace"
    ELSE IF MacroMatch("gesture_rock", f) THEN "gesture_rock"
    ELSE IF MacroMatch("gesture_l", f) THEN "gesture_l"
    ELSE "none"

\* The test in front of the macro, pose and face blocks.
Paused(st) == st = STATE_AWAITING_COPY

InitGate ==
    /\ gpc = "top"
    /\ last_macro_time = 0
    /\ tick_start = "none"
    /\ gate_ev = NoGateEvent

\* A tick with a hand, up to the macro test:
\* if current_state != STATE_AWAITING_COPY and
\*    current_time - last_macro_time > MACRO_COOLDOWN: fingers, macro
MacroGate(f) ==
    /\ gpc = "top"
    /\ current_time' = now
    /\ tick_start' = current_state
    /\ gate_ev' = NoGateEvent
    /\ gpc' = IF /\ ~ Paused(current_state)
                 /\ now - last_macro_time > MACRO_COOLDOWN
                 /\ Macro(f) # "none"
              THEN "macro_emit" ELSE "cp"
    /\ UNCHANGED <<now, engine, current_state, shutdown_flag, fist_frames,
                   open_frames, was_fist_previously, last_cp_action_time, pc,
                   lpc, cpObs, pushVars, swipeVars, moreVars, handVars, runVars, loopVars,
                   last_macro_time>>

\* last_macro_time = current_time; trigger_action(macro)
MacroEmit ==
    /\ gpc = "macro_emit"
    /\ last_macro_time' = current_time
    /\ gate_ev' = [gate_ev EXCEPT !.macro = current_state]
    /\ gpc' = "cp"
    /\ UNCHANGED <<now, cpVars, cpObs, pushVars, swipeVars, moreVars, handVars, runVars, loopVars,
                   tick_start>>

\* The copy/paste block of a tick whose time is t, lines 407 to 450: what
\* it decides on frame hl and what it stores.
CpCopy(hl, t) ==
    /\ CooldownElapsed(t, last_cp_action_time)
    /\ current_state = STATE_AWAITING_COPY
    /\ FistCount(fist_frames, hl) >= REQUIRED_FRAMES

CpInPaste(t) ==
    /\ CooldownElapsed(t, last_cp_action_time)
    /\ current_state = STATE_AWAITING_PASTE

CpArmed(hl) ==
    was_fist_previously \/ FistCount(fist_frames, hl) >= REQUIRED_FRAMES

CpPaste(hl, t) ==
    /\ CpInPaste(t)
    /\ CpArmed(hl)
    /\ OpenCount(open_frames, hl) >= REQUIRED_FRAMES

\* The frame loop is fed frame hl while neither counter would pass cap.
CountsWithin(hl, cap) ==
    /\ FistCount(fist_frames, hl) <= cap
    /\ OpenCount(open_frames, hl) <= cap

CpStep(hl, t) ==
    /\ fist_frames' = FistCount(fist_frames, hl)
    /\ open_frames' = OpenCount(open_frames, hl)
    /\ current_state' = IF CpCopy(hl, t) THEN AfterCopy
                        ELSE IF CpPaste(hl, t) THEN STATE_IDLE
                        ELSE current_state
    /\ last_cp_action_time' =
         IF CpCopy(hl, t) \/ CpPaste(hl, t) THEN t ELSE last_cp_action_time
    /\ was_fist_previously' = IF CpCopy(hl, t) \/ CpPaste(hl, t) THEN FALSE
                              ELSE IF CpInPaste(t) THEN CpArmed(hl)
                              ELSE was_fist_previously

CpBlock(hl) ==
    /\ gpc = "cp"
    /\ CountsWithin(hl, MaxCount)
    /\ CpStep(hl, current_time)
    /\ gpc' = "pose_gate"
    /\ UNCHANGED <<now, engine, shutdown_flag, current_time, pc, lpc, cpObs,
                   pushVars, swipeVars, moreVars, handVars, runVars, loopVars,
                   last_macro_time, tick_start, gate_ev>>

\* A tick whose frame shows no hand goes straight to the pose block.
NoHand ==
    /\ gpc = "top"
    /\ current_time' = now
    /\ tick_start' = current_state
    /\ gate_ev' = NoGateEvent
    /\ gpc' = "pose_gate"
    /\ UNCHANGED <<now, engine, current_state, shutdown_flag, fist_frames,
                   open_frames, was_fist_previously, last_cp_action_time, pc,
                   lpc, cpObs, pushVars, swipeVars, moreVars, handVars, runVars, loopVars,
                   last_macro_time>>

\* if (args.posture or args.push) and pose_landmarker and
\*    current_state != STATE_AWAITING_COPY: detect; if pose_landmarks: ...
PoseGate(seen) ==
    /\ gpc = "pose_gate"
    /\ gpc' = IF ~ Paused(current_state) /\ seen THEN "pose_eval" ELSE "face_gate"
    /\ UNCHANGED <<now, cpVars, cpObs, pushVars, swipeVars, moreVars, handVars, runVars, loopVars,
                   last_macro_time, tick_start, gate_ev>>

\* The push logic of the tick runs (lines 519 to 547).
PoseEval ==
    /\ gpc = "pose_eval"
    /\ gate_ev' = [gate_ev EXCEPT !.push = current_state]
    /\ gpc' = "face_gate"
    /\ UNCHANGED <<now, cpVars, cpObs, pushVars, swipeVars, moreVars, handVars, runVars, loopVars,
                   last_macro_time, tick_start>>
\* if args.face and face_landmarker and
\*    current_state != STATE_AWAITING_COPY: detect; if face_blendshapes: ...
\* Without the face block the tick is over.
FaceGate(seen) ==
    /\ gpc = "face_gate"
    /\ gpc' = IF ~ Paused(current_state) /\ seen THEN "face_eval" ELSE "top"
    /\ current_time' = IF gpc' = "top" THEN 0 ELSE current_time
    /\ UNCHANGED <<now, engine, current_state, shutdown_flag, fist_frames,
                   open_frames, was_fist_previously, last_cp_action_time, pc,
                   lpc, cpObs, pushVars, swipeVars, moreVars, handVars, runVars, loopVars,
                   last_macro_time, tick_start, gate_ev>>

\* The wink and head-tilt logic of the tick runs (lines 556 to 600).
FaceEval ==
    /\ gpc = "face_eval"
    /\ gate_ev' = [gate_ev EXCEPT !.face = current_state]
    /\ gpc' = "top"
    /\ current_time' = 0
    /\ UNCHANGED <<now, engine, current_state, shutdown_flag, fist_frames,
                   open_frames, was_fist_previously, last_cp_action_time, pc,
                   lpc, cpObs, pushVars, swipeVars, moreVars, handVars, runVars, loopVars,
                   last_macro_time, tick_start>>

ClockGate ==
    /\ now < GateEnd
    /\ now' = now + 1
    /\ UNCHANGED <<cpVars, cpObs, pushVars, swipeVars, auxVars>>

InitG ==
    /\ now = CpStart
    /\ ParkedCP
    /\ ParkedPush
    /\ ParkedSwipe
    /\ ParkedHand
    /\ ParkedRun
    /\ ParkedLoop
    /\ InitGate
    /\ ParkedMore

NextGate ==
    \/ \E f \in Fingerings : MacroGate(f)
    \/ MacroEmit
    \/ \E hl \in HandFrames : CpBlock(hl)
    \/ NoHand
    \/ \E seen \in BOOLEAN : PoseGate(seen)
    \/ PoseEval
    \/ \E seen \in BOOLEAN : FaceGate(seen)
    \/ FaceEval
    \/ \E msg \in { m \in Inbound : WellFormed(m) } : ReadSelection(msg)
    \/ SetIdle
    \/ ClockGate

SpecGate == InitG /\ [][NextGate]_vars

-----------------------------------------------------------------------------
(***************************************************************************)
(* Snap detection of gesture_engine.py: the hand branch of the main loop   *)
(* with its zone logic and the pinch-and-release test that follows it.     *)
(* Durations in units of 0.05 s, coordinates in twentieths of the frame.   *)
(***************************************************************************)

SNAP_THRESHOLD == 1         \* 0.05
SNAP_COOLDOWN == 20         \* 1.0 s

\* Bound of the snap model.
SnapHorizon == 6            \* clock units the snap model runs for

SnapStart == SNAP_COOLDOWN + 1
SnapEnd == SnapStart + SnapHorizon
\* The longest wait between pinch and release the observer tells apart.
SnapWindow == SnapHorizon - 1

\* A hand held in the neutral zone, thumb tip (landmark 4) and middle
\* finger tip (landmark 12) d apart.
SnapHands ==
    { [x |-> <<10, 10, 10>>, y |-> <<10, 10, 10>>,
       thumb_tip |-> <<10, 10>>, middle_tip |-> <<10, 10 + d>>] : d \in 0..3 }

\* dist = ((dx)**2 + (dy)**2)**0.5, compared through its square.
SnapDist2(hl) ==
    (hl.thumb_tip[1] - hl.middle_tip[1]) * (hl.thumb_tip[1] - hl.middle_tip[1])
    + (hl.thumb_tip[2] - hl.middle_tip[2]) * (hl.thumb_tip[2] - hl.middle_tip[2])

\* if dist < SNAP_THRESHOLD
Pinched(hl) == SnapDist2(hl) < SNAP_THRESHOLD * SNAP_THRESHOLD

\* dist > SNAP_THRESHOLD * 2
Apart(hl) == SnapDist2(hl) > (2 * SNAP_THRESHOLD) * (2 * SNAP_THRESHOLD)

\* elif snap_prepared and dist > SNAP_THRESHOLD * 2
Released_Level(hl, prepared) == ~ Pinched(hl) /\ Apart(hl)
Released(hl, prepared) == ~ Pinched(hl) /\ prepared /\ Apart(hl)

\* if time.time() - last_snap_time > SNAP_COOLDOWN
SnapCooled(t, last) == t - last > SNAP_COOLDOWN

InitSnap ==
    /\ snap_prepared = FALSE
    /\ last_snap_time = 0
    /\ snap_ev = NoSnapEvent

\* What the observer holds after a hand frame: whether the frame was a
\* pinch (close) or a release distance (far), whether a pinch was seen since
\* the release before it (engaged, and armed after this frame), when the
\* latest pinch frame was (at), how long ago that is, and whether the
\* tracking state was cleared since.
SnapEvent(hl, emit) ==
    LET at == IF Pinched(hl) THEN now ELSE snap_ev.at
    IN  [kind |-> "frame", close |-> Pinched(hl), far |-> Apart(hl),
         engaged |-> snap_ev.armed,
         armed |-> IF Pinched(hl) THEN TRUE
                   ELSE IF Apart(hl) THEN FALSE ELSE snap_ev.armed,
         cooled |-> now - last_snap_time > SNAP_COOLDOWN,
         emitted |-> emit,
         at |-> at,
         since |-> IF at = None THEN None ELSE Min(now - at, SnapWindow + 1),
         reset |-> IF Pinched(hl) THEN FALSE
                   ELSE snap_ev.reset \/ (snap_ev.at # None /\ smoothed_x = None)]

\* One tick with a hand in view: the zone logic, then
\* if dist < SNAP_THRESHOLD: snap_prepared = True
\* elif snap_prepared and dist > SNAP_THRESHOLD * 2:
\*     if cooled: trigger_action("snap"); last_snap_time = time.time()
\*     snap_prepared = False
SnapSeen(hl) ==
    LET release == Released(hl, snap_prepared)
        emit == release /\ SnapCooled(now, last_snap_time)
    IN  /\ ZoneStep(hl)
        /\ snap_prepared' = IF Pinched(hl) THEN TRUE
                            ELSE IF release THEN FALSE ELSE snap_prepared
        /\ last_snap_time' = IF emit THEN now ELSE last_snap_time
        /\ snap_ev' = SnapEvent(hl, emit)
        /\ UNCHANGED <<now, cpVars, cpObs, pushVars, handVars, runVars, loopVars,
                       gateVars, faceVars, postureVars, undoVars>>

ClockSnap ==
    /\ now < SnapEnd
    /\ now' = now + 1
    /\ UNCHANGED <<cpVars, cpObs, pushVars, swipeVars, auxVars>>

InitN ==
    /\ now = SnapStart
    /\ ParkedCP
    /\ ParkedPush
    /\ InitSwipe
    /\ ParkedHand
    /\ ParkedRun
    /\ ParkedLoop
    /\ ParkedGate
    /\ InitSnap
    /\ ParkedFace
    /\ ParkedPosture
    /\ ParkedUndo

NextSnap ==
    \/ \E hl \in SnapHands : SnapSeen(hl)
    \/ HandLost
    \/ ClockSnap

SpecSnap == InitN /\ [][NextSnap]_vars

-----------------------------------------------------------------------------
(***************************************************************************)
(* Face block of unified_engine.py: the wink (two smoothed blink scores, a *)
(* dwell counter, a rest time) and the head tilt that follows it.          *)
(* Durations in units of 0.1 s, blink scores in eighths.                   *)
(***************************************************************************)

WINK_DWELL_THRESHOLD == 3
WinkRest == 12              \* 1.2 s between two winks
TILT_COOLDOWN == 8

\* Bounds of the face model.
FaceHorizon == 2            \* clock units the face model runs for
MaxDwell == 4               \* largest wink_dwell_counter followed

\* The blink score 1.0 on the grid of the model.
ScoreOne == 8

FaceStart == WinkRest + 1
FaceEnd == FaceStart + FaceHorizon

\* The eyes of a face result without face_landmarks.
NoEyes == <<>>

\* A face frame: the two blink scores and the x, y of the two eye landmarks
\* (33 and 263).
FaceFrames ==
    { [left |-> l, right |-> r, eyes |-> e] :
        l \in {0, ScoreOne}, r \in {0, ScoreOne},
        e \in { NoEyes, <<0, 0, 0, 0>>, <<40, 50, 60, 50>>, <<40, 50, 60, 58>>,
                <<40, 58, 60, 50>> } }

\* FACE_EMA_ALPHA * curr + (1 - FACE_EMA_ALPHA) * ema, FACE_EMA_ALPHA = 0.5
FaceSmooth(ema, curr) == (curr + ema) \div 2

Abs(x) == IF x < 0 THEN 0 - x ELSE x

\* wink_score = abs(left - right);
\* is_winking = wink_score > 0.25 and max(left, right) > 0.35
is_winking(l, r) ==
    /\ 100 * Abs(l - r) > 25 * ScoreOne
    /\ 100 * Max(l, r) > 35 * ScoreOne

\* The dwell counter after a frame.
Dwell(c, winking) == IF winking THEN c + 1 ELSE 0

\* if wink_dwell_counter >= WINK_DWELL_THRESHOLD:
\*     if time.time() - last_wink_time > 1.2: clap
Claps(c, winking, t, last) ==
    winking /\ c >= WINK_DWELL_THRESHOLD /\ t - last > WinkRest

\* The tilt the eye line shows: dy / dist beyond TILT_RATIO_THRESHOLD (0.25)
\* either way, with dist > 0; compared through the squares.
Tilt(e) ==
    IF e = NoEyes THEN "none"
    ELSE LET dx == e[3] - e[1]
             dy == e[4] - e[2]
             d2 == dx * dx + dy * dy
         IN  IF d2 > 0 /\ 16 * dy * dy > d2
             THEN (IF dy > 0 THEN "swipe_right" ELSE "swipe_left")
             ELSE "none"

\* if face_results.face_landmarks and
\*    time.time() - last_tilt_time > TILT_COOLDOWN: ...
Tilts(e, t, last) == t - last > TILT_COOLDOWN /\ Tilt(e) # "none"

InitFace == ParkedFace

\* A tick whose face result has blendshapes (lines 556 to 600).
FaceFrame(f) ==
    LET l == FaceSmooth(left_blink_ema, f.left)
        r == FaceSmooth(right_blink_ema, f.right)
        w == is_winking(l, r)
        c == Dwell(wink_dwell_counter, w)
        clap == Claps(c, w, now, last_wink_time)
        tilt == Tilts(f.eyes, now, last_tilt_time)
    IN  /\ c <= MaxDwell
        /\ left_blink_ema' = l
        /\ right_blink_ema' = r
        /\ wink_dwell_counter' = c
        /\ last_wink_time' = IF clap THEN now ELSE last_wink_time
        /\ last_tilt_time' = IF tilt THEN now ELSE last_tilt_time
        /\ wink_ev' = [kind |-> "frame", winking |-> w,
                       pre |-> wink_dwell_counter,
                       out |-> (IF clap THEN << "clap" >> ELSE <<>>)
                               \o (IF tilt THEN << Tilt(f.eyes) >> ELSE <<>>)]
        /\ UNCHANGED <<now, cpVars, cpObs, pushVars, swipeVars, handVars, runVars,
                       loopVars, gateVars, snapVars, postureVars, undoVars>>

\* A tick without face_blendshapes: the face block does nothing.
FaceAbsent ==
    /\ wink_ev' = [NoWinkEvent EXCEPT !.kind = "absent",
                                      !.pre = wink_dwell_counter]
    /\ UNCHANGED <<now, cpVars, cpObs, pushVars, swipeVars, handVars, runVars,
                   loopVars, gateVars, snapVars, postureVars, undoVars,
                   wink_dwell_counter,
                   last_wink_time, last_tilt_time, left_blink_ema,
                   right_blink_ema>>

ClockFace ==
    /\ now < FaceEnd
    /\ now' = now + 1
    /\ UNCHANGED <<cpVars, cpObs, pushVars, swipeVars, auxVars>>

InitF ==
    /\ now = FaceStart
    /\ ParkedCP
    /\ ParkedPush
    /\ ParkedSwipe
    /\ ParkedHand
    /\ ParkedRun
    /\ ParkedLoop
    /\ ParkedGate
    /\ ParkedSnap
    /\ InitFace
    /\ ParkedPosture
    /\ ParkedUndo

NextFace ==
    \/ \E f \in FaceFrames : FaceFrame(f)
    \/ FaceAbsent
    \/ ClockFace

SpecFace == InitF /\ [][NextFace]_vars

-----------------------------------------------------------------------------
(***************************************************************************)
(* Posture reporting: the main loop of posture_engine.py and the posture   *)
(* part of the pose block of kineticode/unified_engine.py and of           *)
(* left-right-swiping/unified_engine.py.  Durations in units of 0.5 s,     *)
(* coordinates in hundredths of the frame height.                          *)
(***************************************************************************)

CalibrationTime == 3        \* 1.5 s, left-right-swiping/unified_engine.py
SlouchRatio == 85           \* nr < 0.85
SlouchDrop == 5             \* sd > 0.05

\* Bound of the posture model.
PostureHorizon == 4         \* clock units the posture model runs for

PostureStart == CalibrationTime + 1
PostureEnd == PostureStart + PostureHorizon

\* A pose frame as the posture logic reads it: the y of the eye line and of
\* the shoulder line (y grows downwards).
PostureFrames == { [ey |-> 30, sy |-> y] : y \in {45, 50, 58} }

\* nd = abs(sy - ey)
NeckDist(pl) == Abs(pl.sy - pl.ey)

\* The loop is still calibrating: left-right-swiping/unified_engine.py takes
\* every frame of its first 1.5 s as the baseline and classifies none.
Calibrating(t) ==
    posture_engine = "lrs" /\ t - posture_start_time < CalibrationTime

\* The baseline after the frame: the other two loops take the first frame.
Baseline(old, sample, t) ==
    IF posture_engine = "lrs"
    THEN (IF Calibrating(t) THEN sample ELSE old)
    ELSE (IF neutral_neck_dist = None THEN sample ELSE old)

\* nr = nd / neutral_neck_dist if neutral_neck_dist else 1.0
\* sd = sy - neutral_shoulder_y if neutral_shoulder_y else 0
\* is_slouching = (nr < 0.85) or (sd > 0.05)
is_slouching(pl, nn, ns) ==
    \/ nn # None /\ nn # 0 /\ 100 * NeckDist(pl) < SlouchRatio * nn
    \/ ns # None /\ ns # 0 /\ pl.sy - ns > SlouchDrop

\* The posture the frame is classified as, "none" while calibrating.
Classified(pl, t) ==
    IF Calibrating(t) THEN "none"
    ELSE IF is_slouching(pl, Baseline(neutral_neck_dist, NeckDist(pl), t),
                         Baseline(neutral_shoulder_y, pl.sy, t))
         THEN "slouch" ELSE "upright"

\* The frame changes the posture on record: if state != current_posture.
\* In posture_engine.py that test sits inside the branch of the upright
\* frame.
Changes(state) ==
    /\ state # "none"
    /\ state # current_posture
    /\ posture_engine = "posture" => state = "upright"

\* if args.extension: print(json.dumps({"posture": ...}))
PostureOut(state) ==
    IF Changes(state) /\ extension THEN << state >> ELSE <<>>

\* The posture part of a processed pose frame, at time t.
PostureStep(pl, t) ==
    LET state == Classified(pl, t)
    IN  /\ neutral_neck_dist' = Baseline(neutral_neck_dist, NeckDist(pl), t)
        /\ neutral_shoulder_y' = Baseline(neutral_shoulder_y, pl.sy, t)
        /\ current_posture' = IF Changes(state) THEN state ELSE current_posture
        /\ posture_ev' = [kind |-> "frame", state |-> state,
                          pre |-> current_posture, out |-> PostureOut(state)]
        /\ UNCHANGED <<posture_engine, posture_start_time>>

\* A tick with pose landmarks.
PostureFrame(pl) ==
    /\ PostureStep(pl, now)
    /\ UNCHANGED <<now, cpVars, cpObs, pushVars, swipeVars, handVars, runVars,
                   loopVars, gateVars, snapVars, faceVars, undoVars>>

\* A tick without pose landmarks.
PostureAbsent ==
    /\ posture_ev' = [NoPostureEvent EXCEPT !.kind = "absent",
                                            !.pre = current_posture]
    /\ UNCHANGED <<now, cpVars, cpObs, pushVars, swipeVars, handVars, runVars,
                   loopVars, gateVars, snapVars, faceVars, undoVars,
                   posture_engine,
                   neutral_neck_dist, neutral_shoulder_y, current_posture,
                   posture_start_time>>

ClockPosture ==
    /\ now < PostureEnd
    /\ now' = now + 1
    /\ UNCHANGED <<cpVars, cpObs, pushVars, swipeVars, auxVars>>

InitPosture ==
    /\ posture_engine \in {"posture", "unified", "lrs"}
    /\ neutral_neck_dist = None
    /\ neutral_shoulder_y = None
    /\ current_posture = "upright"
    /\ posture_start_time = PostureStart
    /\ posture_ev = NoPostureEvent

\* The push part of the pose block is off (no --push); extension mode is on
\* or off.
InitO ==
    /\ now = PostureStart
    /\ ParkedCP
    /\ push_engine = "unified"
    /\ extension \in BOOLEAN
    /\ push_state = PUSH_STATE_MONITORING
    /\ neutral_dist = None
    /\ last_push_time = 0
    /\ push_start_time = 0
    /\ confirmation_start_time = 0
    /\ pose_ev = NoPoseEvent
    /\ last_confirm = NoConfirm
    /\ ParkedSwipe
    /\ ParkedHand
    /\ ParkedRun
    /\ ParkedLoop
    /\ ParkedGate
    /\ ParkedSnap
    /\ ParkedFace
    /\ ParkedUndo
    /\ InitPosture

NextPosture ==
    \/ \E pl \in PostureFrames : PostureFrame(pl)
    \/ PostureAbsent
    \/ ClockPosture

SpecPosture == InitO /\ [][NextPosture]_vars

-----------------------------------------------------------------------------
(***************************************************************************)
(* A whole tick of the frame loop on its landmark results: the hand block  *)
(* of unified_engine.py (tracking, macro gestures, copy/paste, undo) or of *)
(* copy_paste_engine.py (copy/paste only), then the pose block of          *)
(* unified_engine.py (posture and push), with the listener beside them.    *)
(* Each block is one step.  Durations in units of 0.5 s; hand frames lie   *)
(* in the image plane, so the 2-D distances of the undo block are the 3-D  *)
(* ones of get_distance.                                                   *)
(***************************************************************************)

UndoRest == 3               \* current_time - last_undo_time > 1.5
MinLandmarks == 21          \* if len(pl) < 21: continue

\* Bound of this model.
TickHorizon == 1            \* clock units the model runs for

\* A duration of the push flow, given in seconds, in units of 0.5 s.
Halves(d) == 2 * d

TickStart == Halves(PUSH_COOLDOWN) + 1
TickEnd == TickStart + TickHorizon

\* A finger that points up has its tip above its joint (y grows downwards):
\* the IP joint for the thumb, the PIP joint for the others.
Pointing(up) ==
    [tip_y |-> [i \in 1..5 |-> IF up[i] THEN 30 ELSE 50],
     joint_y |-> [i \in 1..5 |-> 40]]

\* A hand frame of the tick: the distances is_fist and is_open read (palm m,
\* tips as given for index, middle, ring and pinky), the palm landmarks of
\* the tracking, the tip and joint heights of get_finger_states, and the
\* distance between the tips of thumb and index.
TickHandOf(m, tips, up, pinch) ==
    [mcp |-> [i \in Fingers |-> m], tip |-> tips,
     x |-> <<10, 10, 10>>, y |-> <<10, 10, 10>>,
     tip_y |-> Pointing(up).tip_y, joint_y |-> Pointing(up).joint_y,
     pinch |-> pinch]

\* A fist, a raised index, the OK gesture (an open hand to is_open: three
\* fingers stretched), and two frames of hand size 0: one with a raised
\* index, one with the fingers of the OK gesture and thumb and index on one
\* point.
TickHands ==
    { TickHandOf(10, <<10, 10, 10, 10>>,
                 <<FALSE, FALSE, FALSE, FALSE, FALSE>>, 5),
      TickHandOf(10, <<20, 10, 10, 10>>,
                 <<FALSE, TRUE, FALSE, FALSE, FALSE>>, 8),
      TickHandOf(10, <<10, 20, 20, 20>>,
                 <<FALSE, FALSE, TRUE, TRUE, TRUE>>, 2),
      TickHandOf(0, <<20, 10, 10, 10>>,
                 <<FALSE, TRUE, FALSE, FALSE, FALSE>>, 5),
      TickHandOf(0, <<10, 20, 20, 20>>,
                 <<FALSE, FALSE, TRUE, TRUE, TRUE>>, 0) }

\* [thumb, index, middle, ring, pinky]: tip y < joint y.
get_finger_states(hl) ==
    [i \in 1..5 |-> hl.tip_y[i] < hl.joint_y[i]]

\* The macro block runs: if current_state != STATE_AWAITING_COPY and
\* current_time - last_macro_time > MACRO_COOLDOWN
MacroDue_NoCooldown(t) ==
    /\ engine = "unified"
    /\ ~ Paused(current_state)
MacroDue(t) ==
    /\ engine = "unified"
    /\ ~ Paused(current_state)
    /\ t - last_macro_time > MACRO_COOLDOWN

\* The macro the tick emits on frame hl, "none" if it emits none.
MacroOf(hl, t) ==
    IF MacroDue(t) THEN Macro(get_finger_states(hl)) ELSE "none"

\* dist_thumb_index < hand_size * 0.4 and fingers[2:] == [True, True, True]
OkGesture(hl) ==
    /\ 10 * hl.pinch < 4 * get_hand_size(hl)
    /\ SubSeq(get_finger_states(hl), 3, 5) = <<TRUE, TRUE, TRUE>>

\* elif current_time - undo_touch_start > 0.4
UndoHeld(t) == 5 * (t - undo_touch_start) > 4

\* The OK gesture has been held and the last undo is long enough ago.
UndoFires(hl, t) ==
    /\ engine = "unified"
    /\ OkGesture(hl)
    /\ undo_state # UNDO_STATE_IDLE
    /\ UndoHeld(t)
    /\ t - last_undo_time > UndoRest

\* The undo block, lines 453 to 474.
UndoStep(hl, t) ==
    /\ undo_state' =
         IF engine # "unified" THEN undo_state
         ELSE IF ~ OkGesture(hl) THEN UNDO_STATE_IDLE
         ELSE IF undo_state = UNDO_STATE_IDLE THEN UNDO_STATE_TOUCH
         ELSE IF UndoFires(hl, t) THEN UNDO_STATE_IDLE
         ELSE undo_state
    /\ undo_touch_start' =
         IF engine = "unified" /\ OkGesture(hl) /\ undo_state = UNDO_STATE_IDLE
         THEN t ELSE undo_touch_start
    /\ last_undo_time' = IF UndoFires(hl, t) THEN t ELSE last_undo_time

\* The tracking at the head of the hand branch, lines 365 to 381.  The loop
\* reads hand_presence_start against None only; it is kept as the start of
\* the run.
TrackStep(hl) ==
    LET sx == Smooth(smoothed_x, palm_center_x(hl))
        sy == Smooth(smoothed_y, palm_center_y(hl))
    IN  IF engine = "unified"
        THEN /\ hand_presence_start' =
                  IF hand_presence_start = None THEN TickStart
                  ELSE hand_presence_start
             /\ smoothed_x' = sx
             /\ smoothed_y' = sy
             /\ neutral_y' = IF InNeutral(sx) \/ neutral_y = None THEN sy
                             ELSE neutral_y
             /\ can_trigger' = IF InNeutral(sx) THEN TRUE ELSE can_trigger
        ELSE UNCHANGED <<hand_presence_start, smoothed_x, smoothed_y,
                         neutral_y, can_trigger>>

\* The records the hand block prints on frame hl, in the order of the code.
\* unified_engine prints the undo record in extension mode only.
HandOut(hl, t) ==
    (IF MacroOf(hl, t) # "none" THEN << MacroOf(hl, t) >> ELSE <<>>)
    \o (IF CpCopy(hl, t) THEN << "action:copy" >>
        ELSE IF CpPaste(hl, t) THEN << "action:paste" >> ELSE <<>>)
    \o (IF UndoFires(hl, t) /\ extension THEN << "action:undo" >> ELSE <<>>)

\* What the observer holds after the hand block ran on frame hl.
TickEvent(hl, t) ==
    [kind |-> "hand", size |-> get_hand_size(hl),
     fist |-> is_fist(hl), open |-> is_open(hl), ok |-> OkGesture(hl),
     macro |-> MacroOf(hl, t), ff |-> fist_frames, of |-> open_frames, out |-> HandOut(hl, t)]

\* The push and the posture state without their observers.
TickPushState ==
    <<push_engine, extension, push_state, neutral_dist, last_push_time,
      push_start_time, confirmation_start_time, last_confirm>>

TickPostureState ==
    <<posture_engine, neutral_neck_dist, neutral_shoulder_y, current_posture,
      posture_start_time>>

InitTick == ParkedUndo

\* if hand_results.hand_landmarks: the hand block on frame hl.
TickHand(hl) ==
    /\ gpc = "top"
    /\ TrackStep(hl)
    /\ last_macro_time' = IF MacroOf(hl, now) # "none" THEN now
                          ELSE last_macro_time
    /\ macro_last' = IF MacroOf(hl, now) # "none" THEN now ELSE macro_last
    /\ ok_since' = IF engine = "unified" /\ OkGesture(hl)
                   THEN (IF ok_since = None THEN now ELSE ok_since)
                   ELSE None
    /\ CountsWithin(hl, MaxCount)
    /\ CpStep(hl, now)
    /\ UndoStep(hl, now)
    /\ tick_ev' = TickEvent(hl, now)
    /\ pose_ev' = NoPoseEvent
    /\ posture_ev' = NoPostureEvent
    /\ gpc' = "pose"
    /\ UNCHANGED <<now, engine, shutdown_flag, current_time, pc, lpc, cpObs,
                   TickPushState, last_event_time, hand_lost_frames,
                   swipe_last, swipe_gap, handVars, runVars, loopVars, tick_start,
                   gate_ev, snapVars, faceVars, TickPostureState>>

\* else: what a tick without hand landmarks stores.  copy_paste_engine has
\* no such branch; unified_engine clears its tracking.
TickNoHand_Decay ==
    /\ gpc = "top"
    /\ fist_frames' = Max(0, fist_frames - 1)
    /\ open_frames' = Max(0, open_frames - 1)
    /\ tick_ev' = [NoTickEvent EXCEPT !.kind = "nohand", !.ff = fist_frames,
                                      !.of = open_frames]
    /\ pose_ev' = NoPoseEvent
    /\ posture_ev' = NoPostureEvent
    /\ ok_since' = None
    /\ gpc' = "pose"
    /\ IF engine = "unified"
       THEN /\ hand_presence_start' = None
            /\ smoothed_x' = None
            /\ smoothed_y' = None
            /\ neutral_y' = None
            /\ can_trigger' = TRUE
       ELSE UNCHANGED <<hand_presence_start, smoothed_x, smoothed_y,
                        neutral_y, can_trigger>>
    /\ UNCHANGED <<now, engine, current_state, shutdown_flag,
                   was_fist_previously, last_cp_action_time, current_time,
                   pc, lpc, cpObs, TickPushState, last_event_time,
                   hand_lost_frames, swipe_last, swipe_gap, handVars, runVars,
                   loopVars, last_macro_time, tick_start, gate_ev, snapVars,
                   faceVars, TickPostureState, undo_state, undo_touch_start,
                   last_undo_time, macro_last>>
TickNoHand ==
    /\ gpc = "top"
    /\ tick_ev' = [NoTickEvent EXCEPT !.kind = "nohand", !.ff = fist_frames,
                                      !.of = open_frames]
    /\ pose_ev' = NoPoseEvent
    /\ posture_ev' = NoPostureEvent
    /\ ok_since' = None
    /\ gpc' = "pose"
    /\ IF engine = "unified"
       THEN /\ hand_presence_start' = None
            /\ smoothed_x' = None
            /\ smoothed_y' = None
            /\ neutral_y' = None
            /\ can_trigger' = TRUE
       ELSE UNCHANGED <<hand_presence_start, smoothed_x, smoothed_y,
                        neutral_y, can_trigger>>
    /\ UNCHANGED <<now, engine, current_state, shutdown_flag, fist_frames,
                   open_frames, was_fist_previously, last_cp_action_time,
                   current_time, pc, lpc, cpObs, TickPushState,
                   last_event_time, hand_lost_frames, swipe_last, swipe_gap,
                   handVars, runVars, loopVars, last_macro_time, tick_start, gate_ev,
                   snapVars, faceVars, TickPostureState, undo_state,
                   undo_touch_start, last_undo_time, macro_last>>

\* A pose result: n landmarks, and what the posture and the push logic read
\* of them.  A user sitting upright, and a result of 17 landmarks of a user
\* who slouches towards the camera with the hands raised.
TickPoseOf(n, e, s, w) ==
    [n |-> n, eye_dist |-> e, nose_y |-> 35, ey |-> 30, sy |-> s,
     lw_y |-> w, rw_y |-> w]

TickPoses ==
    { TickPoseOf(33, 20, 50, 70), TickPoseOf(17, 16, 58, 40) }

\* if len(pl) < 21: continue
Partial(pl) == pl.n < MinLandmarks

\* if time.time() - push_start_time < WARMUP_TIME
TickWarm(t) == t - push_start_time < Halves(WARMUP_TIME)

\* What the push logic decides on frame pl at time t.
TickEnters(pl, t) ==
    /\ ~ TickWarm(t)
    /\ push_state = PUSH_STATE_MONITORING
    /\ RatioLow(pl.eye_dist, neutral_dist)
    /\ t - last_push_time > Halves(PUSH_COOLDOWN)

TickConfirms(pl, t) ==
    /\ ~ TickWarm(t)
    /\ push_state = PUSH_STATE_AWAITING_CONFIRMATION
    /\ HandsUp(pl)

TickTimesOut(pl, t) ==
    /\ ~ TickWarm(t)
    /\ push_state = PUSH_STATE_AWAITING_CONFIRMATION
    /\ ~ HandsUp(pl)
    /\ t - confirmation_start_time > Halves(CONFIRM_TIMEOUT)

TickPushOut(pl, t) ==
    IF TickEnters(pl, t) THEN EnterOut
    ELSE IF TickConfirms(pl, t) THEN ConfirmOut
    ELSE IF TickTimesOut(pl, t) THEN TimeoutOut
    ELSE <<>>

\* The push part of a processed pose frame, lines 519 to 547; the push
\* itself runs in a thread of its own.
TickPush(pl, t) ==
    /\ neutral_dist' = IF TickWarm(t) THEN Calibrate(neutral_dist, pl.eye_dist)
                       ELSE neutral_dist
    /\ push_state' = IF TickEnters(pl, t) THEN PUSH_STATE_AWAITING_CONFIRMATION
                     ELSE IF TickConfirms(pl, t) \/ TickTimesOut(pl, t)
                          THEN PUSH_STATE_MONITORING
                     ELSE push_state
    /\ confirmation_start_time' = IF TickEnters(pl, t) THEN t
                                  ELSE confirmation_start_time
    /\ last_push_time' = IF TickConfirms(pl, t) THEN t ELSE last_push_time
    /\ last_confirm' = last_confirm
    /\ pose_ev' = [NoPoseEvent EXCEPT !.kind = "pose", !.pre = push_state,
                                      !.out = TickPushOut(pl, t)]
    /\ UNCHANGED <<push_engine, extension, push_start_time>>

\* The pose block on a result with landmarks, lines 484 to 547: skipped in
\* STATE_AWAITING_COPY and for a result of fewer than 21 landmarks.
\* copy_paste_engine has no pose block.
TickPose(pl) ==
    /\ gpc = "pose"
    /\ gpc' = "top"
    /\ tick_ev' = NoTickEvent
    /\ IF engine # "unified" \/ Paused(current_state)
       THEN /\ posture_ev' = NoPostureEvent
            /\ pose_ev' = NoPoseEvent
            /\ UNCHANGED <<TickPostureState, TickPushState>>
       ELSE IF Partial(pl)
       THEN /\ posture_ev' = [NoPostureEvent EXCEPT !.kind = "partial",
                                                    !.pre = current_posture]
            /\ pose_ev' = [NoPoseEvent EXCEPT !.kind = "partial",
                                              !.pre = push_state]
            /\ UNCHANGED <<TickPostureState, TickPushState>>
       ELSE /\ PostureStep(pl, now)
            /\ TickPush(pl, now)
    /\ UNCHANGED <<now, cpVars, cpObs, swipeVars, handVars, runVars, loopVars,
                   last_macro_time, tick_start, gate_ev, snapVars, faceVars,
                   undo_state, undo_touch_start, last_undo_time, macro_last, ok_since>>

\* The pose block without pose landmarks.
TickPoseAbsent ==
    /\ gpc = "pose"
    /\ gpc' = "top"
    /\ tick_ev' = NoTickEvent
    /\ posture_ev' = NoPostureEvent
    /\ pose_ev' = NoPoseEvent
    /\ UNCHANGED <<now, cpVars, cpObs, swipeVars, handVars, runVars, loopVars,
                   last_macro_time, tick_start, gate_ev, snapVars, faceVars,
                   undo_state, undo_touch_start, last_undo_time, macro_last,
                   ok_since, TickPostureState, TickPushState>>

\* read_stdin on a selection_changed record with hasSelection true:
\* current_state = STATE_AWAITING_COPY
TickSelection ==
    /\ current_state' = STATE_AWAITING_COPY
    /\ UNCHANGED <<now, engine, shutdown_flag, fist_frames, open_frames,
                   was_fist_previously, last_cp_action_time, current_time,
                   pc, lpc, cpObs, pushVars, swipeVars, auxVars>>

ClockTick ==
    /\ now < TickEnd
    /\ now' = now + 1
    /\ UNCHANGED <<cpVars, cpObs, pushVars, swipeVars, auxVars>>

InitT ==
    /\ now = TickStart
    /\ InitCP
    /\ push_engine = "unified"
    /\ extension = TRUE
    /\ push_state = PUSH_STATE_MONITORING
    /\ neutral_dist = None
    /\ last_push_time = 0
    /\ push_start_time = TickStart
    /\ confirmation_start_time = 0
    /\ pose_ev = NoPoseEvent
    /\ last_confirm = NoConfirm
    /\ ParkedSwipe
    /\ ParkedHand
    /\ ParkedRun
    /\ ParkedLoop
    /\ ParkedGate
    /\ ParkedSnap
    /\ ParkedFace
    /\ posture_engine = "unified"
    /\ neutral_neck_dist = None
    /\ neutral_shoulder_y = None
    /\ current_posture = "upright"
    /\ posture_start_time = TickStart
    /\ posture_ev = NoPostureEvent
    /\ InitTick

NextTick ==
    \/ \E hl \in TickHands : TickHand(hl)
    \/ TickNoHand
    \/ \E pl \in TickPoses : TickPose(pl)
    \/ TickPoseAbsent
    \/ TickSelection
    \/ ClockTick

SpecTick == InitT /\ [][NextTick]_vars

-----------------------------------------------------------------------------
(***************************************************************************)
(* The debounce counters over long runs of frames: the copy/paste block of *)
(* a tick as one step (unified_engine.py lines 416 to 450,                 *)
(* copy_paste_engine.py lines 248 to 288) with the listener beside it, the *)
(* counters followed further than in the other specifications.  Durations  *)
(* in units of 0.5 s.                                                      *)
(***************************************************************************)

\* Bounds of this model.
CountCap == 6               \* the frame loop stops feeding a counter here
CountHorizon == 2           \* clock units the model runs for

CountEnd == CpStart + CountHorizon

\* if results.hand_landmarks: the copy/paste block on frame hl.
CountHand(hl) ==
    /\ CountsWithin(hl, CountCap)
    /\ CpStep(hl, now)
    /\ tick_ev' = [NoTickEvent EXCEPT !.kind = "hand",
                                      !.size = get_hand_size(hl),
                                      !.fist = is_fist(hl),
                                      !.open = is_open(hl),
                                      !.ff = fist_frames,
                                      !.of = open_frames]
    /\ UNCHANGED <<now, engine, shutdown_flag, current_time, pc, lpc, cpObs,
                   pushVars, swipeVars, handVars, runVars, loopVars, gateVars,
                   snapVars, faceVars, postureVars, undo_state,
                   undo_touch_start, last_undo_time, macro_last, ok_since>>

ClockCount ==
    /\ now < CountEnd
    /\ now' = now + 1
    /\ UNCHANGED <<cpVars, cpObs, pushVars, swipeVars, auxVars>>

InitC ==
    /\ now = CpStart
    /\ InitCP
    /\ ParkedPush
    /\ ParkedSwipe
    /\ ParkedAux

NextCount ==
    \/ \E hl \in HandFrames : CountHand(hl)
    \/ TickSelection
    \/ ClockCount

SpecCount == InitC /\ [][NextCount]_vars

-----------------------------------------------------------------------------
(***************************************************************************)
(* The macro gestures of unified_engine.py over every finger-state vector: *)
(* the engine run in extension mode with --hands only, so that the hand    *)
(* block of a tick is the tracking followed by the macro block (lines 365  *)
(* to 405), with the listener beside it.  Durations in units of 0.5 s.     *)
(***************************************************************************)

\* Bound of this model.
MacroHorizon == 4           \* clock units the model runs for

MacroStart == MACRO_COOLDOWN + 1
MacroEnd == MacroStart + MacroHorizon

MacroNames == {"gesture_one", "gesture_peace", "gesture_rock", "gesture_l"}

\* Every [thumb, index, middle, ring, pinky] get_finger_states can return.
FingerStates == [1..5 -> BOOLEAN]

\* The patterns of the macro block that match the finger states f.
Matching(f) == { name \in MacroNames : MacroMatch(name, f) }

\* A hand in the neutral zone whose fingers point as f says.
MacroHands ==
    { [x |-> <<10, 10, 10>>, y |-> <<10, 10, 10>>,
       tip_y |-> Pointing(f).tip_y, joint_y |-> Pointing(f).joint_y] :
        f \in FingerStates }

\* if hand_results.hand_landmarks: tracking, then the macro block.
MacroHand(hl) ==
    /\ TrackStep(hl)
    /\ last_macro_time' = IF MacroOf(hl, now) # "none" THEN now
                          ELSE last_macro_time
    /\ macro_last' = IF MacroOf(hl, now) # "none" THEN now ELSE macro_last
    /\ tick_ev' = [NoTickEvent EXCEPT
                     !.kind = "hand",
                     !.macro = MacroOf(hl, now),
                     !.out = IF MacroOf(hl, now) # "none"
                             THEN << MacroOf(hl, now) >> ELSE <<>>]
    /\ UNCHANGED <<now, cpVars, cpObs, pushVars, last_event_time,
                   hand_lost_frames, swipe_last, swipe_gap, handVars, runVars,
                   loopVars, gpc, tick_start, gate_ev, snapVars, faceVars,
                   postureVars, undo_state, undo_touch_start,
                   last_undo_time, ok_since>>

\* else: the tracking state is cleared.
MacroNoHand ==
    /\ hand_presence_start' = None
    /\ smoothed_x' = None
    /\ smoothed_y' = None
    /\ neutral_y' = None
    /\ can_trigger' = TRUE
    /\ tick_ev' = [NoTickEvent EXCEPT !.kind = "nohand"]
    /\ UNCHANGED <<now, cpVars, cpObs, pushVars, last_event_time,
                   hand_lost_frames, swipe_last, swipe_gap, handVars, runVars,
                   loopVars, gateVars, snapVars, faceVars, postureVars,
                   undo_state, undo_touch_start, last_undo_time, macro_last, ok_since>>

ClockMacro ==
    /\ now < MacroEnd
    /\ now' = now + 1
    /\ UNCHANGED <<cpVars, cpObs, pushVars, swipeVars, auxVars>>

InitM ==
    /\ now = MacroStart
    /\ ParkedCP
    /\ push_engine = "unified"
    /\ extension = TRUE
    /\ push_state = PUSH_STATE_MONITORING
    /\ neutral_dist = None
    /\ last_push_time = 0
    /\ push_start_time = 0
    /\ confirmation_start_time = 0
    /\ pose_ev = NoPoseEvent
    /\ last_confirm = NoConfirm
    /\ ParkedSwipe
    /\ ParkedAux

NextMacro ==
    \/ \E hl \in MacroHands : MacroHand(hl)
    \/ MacroNoHand
    \/ \E msg \in { m \in Inbound : WellFormed(m) } : ReadSelection(msg)
    \/ SetIdle
    \/ ClockMacro

SpecMacro == InitM /\ [][NextMacro]_vars

(***************************************************************************)
(* One run of an engine, from the first statement of main() to its return: *)
(* the camera is opened, {"status": "ready"} is printed and the frame loop *)
(* prints its records.  run_out holds the kinds of the JSON records        *)
(* printed so far; the frame loop is reduced to the kinds its ticks can    *)
(* print in the engine at hand.                                            *)
(***************************************************************************)
RunMaxOut == 3

RunEngines ==
    {"unified", "copy_paste", "gesture", "push", "posture", "lrs_gesture",
     "lrs_unified"}

\* The engines that print {"status": "ready"} before they open the camera
\* (copy_paste_engine.py:143-145) and those that print it after the camera
\* was found open.
ReadyFirst == {"copy_paste"}
ReadyAfterCamera == {"unified", "gesture", "push", "lrs_gesture"}

\* lrs_unified prints it between the two without looking at the camera;
\* posture_engine.py has no such statement.
ReadyAtLoop == {"lrs_unified"}

\* The engines whose main() returns when the camera did not open, and the
\* ones among them that print a JSON error record then (unified_engine.py
\* prints it in either mode, copy_paste_engine.py and push_engine.py in
\* extension mode, the gesture engines print plain text).
ChecksCamera == {"unified", "copy_paste", "gesture", "push", "lrs_gesture"}

CameraError(e) ==
    \/ e = "unified"
    \/ e \in {"copy_paste", "push"} /\ extension

\* The kinds of record a tick of the frame loop can print in extension mode.
LoopRecords(e) ==
    CASE e = "unified"     -> {"gesture", "action", "posture", "status"}
      [] e = "copy_paste"  -> {"action"}
      [] e = "gesture"     -> {"gesture"}
      [] e = "lrs_gesture" -> {"gesture"}
      [] e = "lrs_unified" -> {"gesture", "posture"}
      [] e = "push"        -> {"action", "status"}
      [] e = "posture"     -> {"posture"}

ReadyIf(cond) ==
    IF cond /\ extension THEN Append(run_out, "ready") ELSE run_out

\* main() up to the camera.
RunMain ==
    /\ run_pc = "main"
    /\ run_out' = ReadyIf(run_engine \in ReadyFirst)
    /\ run_pc' = "camera"
    /\ UNCHANGED <<now, cpVars, cpObs, pushVars, swipeVars, handVars,
                   taskVars, faultVars, emaVars,
                   run_engine, loopVars, gateVars, moreVars>>

\* The camera is opened (opened: cap.isOpened() afterwards) and main() goes
\* on to the frame loop or returns.
RunCamera(opened) ==
    /\ run_pc = "camera"
    /\ IF opened
          THEN /\ run_out' = ReadyIf(run_engine \in
                                         ReadyAfterCamera \cup ReadyAtLoop)
               /\ run_pc' = "loop"
          ELSE IF run_engine \in ChecksCamera
                  THEN /\ run_out' = IF CameraError(run_engine)
                                        THEN Append(run_out, "error")
                                        ELSE run_out
                       /\ run_pc' = "done"
                  ELSE \* while cap.isOpened() is false at once
                       /\ run_out' = ReadyIf(run_engine \in ReadyAtLoop)
                       /\ run_pc' = "done"
    /\ UNCHANGED <<now, cpVars, cpObs, pushVars, swipeVars, handVars,
                   taskVars, faultVars, emaVars,
                   run_engine, loopVars, gateVars, moreVars>>

\* A tick of the frame loop that prints a record of kind k.
RunTick(k) ==
    /\ run_pc = "loop"
    /\ Len(run_out) < RunMaxOut
    /\ run_out' = IF extension THEN Append(run_out, k) ELSE run_out
    /\ UNCHANGED <<now, cpVars, cpObs, pushVars, swipeVars, handVars,
                   taskVars, faultVars, emaVars,
                   run_engine, run_pc, loopVars, gateVars, moreVars>>

\* The frame loop ends (camera closed, quit key or shutdown).
RunQuit ==
    /\ run_pc = "loop"
    /\ run_pc' = "done"
    /\ UNCHANGED <<now, cpVars, cpObs, pushVars, swipeVars, handVars,
                   taskVars, faultVars, emaVars,
                   run_engine, run_out, loopVars, gateVars, moreVars>>

InitR ==
    /\ now = 0
    /\ ParkedCP
    /\ push_engine = "unified"
    /\ extension \in BOOLEAN
    /\ push_state = PUSH_STATE_MONITORING
    /\ neutral_dist = None
    /\ last_push_time = 0
    /\ push_start_time = 0
    /\ confirmation_start_time = 0
    /\ pose_ev = NoPoseEvent
    /\ last_confirm = NoConfirm
    /\ ParkedSwipe
    /\ ParkedHand
    /\ run_engine \in RunEngines
    /\ run_pc = "main"
    /\ run_out = <<>>
    /\ push_tasks = {}
    /\ push_results = <<>>
    /\ push_count = 0
    /\ ParkedFault
    /\ ParkedEma
    /\ ParkedLoop
    /\ ParkedGate
    /\ ParkedMore

NextRun ==
    \/ RunMain
    \/ \E opened \in BOOLEAN : RunCamera(opened)
    \/ \E k \in LoopRecords(run_engine) : RunTick(k)
    \/ RunQuit

SpecRun == InitR /\ [][NextRun]_vars

(***************************************************************************)
(* The push flow of unified_engine.py together with the threads that       *)
(* perform_git_push_async starts.  A thread runs git rev-parse, add,       *)
(* status and commit without a time limit and git push with a limit of 10  *)
(* s, then prints its git_push record: it ends at a time of its own.       *)
(* Durations in seconds.                                                   *)
(***************************************************************************)
AsyncHorizon == 9           \* clock units the model runs for
MaxPushes == 2              \* confirmed pushes the model follows

AsyncEnd == PushStart + AsyncHorizon

\* if hands_up: perform_git_push_async(...) starts a thread on task();
\* last_push_time = time.time(); push_state = PUSH_STATE_MONITORING
ConfirmAsync(pl) ==
    /\ ~ (now - push_start_time < WARMUP_TIME)
    /\ push_state = PUSH_STATE_AWAITING_CONFIRMATION
    /\ HandsUp(pl)
    /\ push_count < MaxPushes
    /\ push_count' = push_count + 1
    /\ push_tasks' = push_tasks \cup {push_count'}
    /\ last_push_time' = now
    /\ last_confirm' = [frame |-> now, done |-> now]
    /\ push_state' = PUSH_STATE_MONITORING
    /\ pose_ev' = PoseEvent(pl, ConfirmOut, 1, 0)
    /\ UNCHANGED <<now, cpVars, cpObs, push_engine, extension, neutral_dist,
                   push_start_time, confirmation_start_time, swipeVars,
                   handVars, sessVars, faultVars, emaVars, push_results,
                   loopVars, gateVars,
                   moreVars>>

\* task() of thread id comes to its end and prints its record (in extension
\* mode: {"action": "git_push", ...}).
TaskEnds(id) ==
    /\ id \in push_tasks
    /\ push_tasks' = push_tasks \ {id}
    /\ push_results' = IF extension THEN Append(push_results, id)
                       ELSE push_results
    /\ UNCHANGED <<now, cpVars, cpObs, pushVars, swipeVars, handVars,
                   sessVars, faultVars, emaVars, push_count, loopVars,
                   gateVars, moreVars>>

ClockAsync ==
    /\ now < AsyncEnd
    /\ now' = now + 1
    /\ UNCHANGED <<cpVars, cpObs, pushVars, swipeVars, auxVars>>

InitA ==
    /\ now = PushStart
    /\ ParkedCP
    /\ InitPush
    /\ push_engine = "unified"
    /\ ParkedSwipe
    /\ ParkedAux

NextAsync ==
    \/ PoseAbsent
    \/ \E pl \in PoseFrames : Warmup(pl)
    \/ \E pl \in PoseFrames : Monitor(pl)
    \/ \E pl \in PoseFrames : ConfirmAsync(pl)
    \/ \E pl \in PoseFrames : Await(pl)
    \/ \E id \in 1..MaxPushes : TaskEnds(id)
    \/ ClockAsync

SpecAsync == InitA /\ [][NextAsync]_vars

(***************************************************************************)
(* Exceptions in a tick of unified_engine.py.  The tick runs its hand,     *)
(* pose and face blocks in that order; a block whose flag is off is        *)
(* skipped.  A block finds no landmarks, processes a frame, or raises an   *)
(* exception: in the detect() call of its classifier or in the code that   *)
(* works on the landmarks.  Only the landmark code of the pose block sits  *)
(* in a try statement (487-550); an exception anywhere else leaves the     *)
(* while loop and main().                                                  *)
(***************************************************************************)
MaxFaultTicks == 2          \* whole ticks the model follows

BlockResults == {"none", "done", "raise_detect", "raise_inside"}

\* What becomes of a block on result r: an exception inside the try of the
\* pose block is caught (and {"error": "Pose Engine Crash: ..."} printed),
\* any other exception is not.
Caught(block, r) == block = "pose" /\ r = "raise_inside"

Outcome(block, r) ==
    IF r \in {"none", "done"} THEN r
    ELSE IF Caught(block, r) THEN "caught" ELSE "raised"

\* The block at position b of a tick, with result r; next is the position
\* after it.
FaultBlock(b, enabled, r, next) ==
    /\ loop_alive
    /\ gpc = b
    /\ fault_ticks < MaxFaultTicks
    /\ IF ~ enabled
          THEN /\ fault_ev' = [fault_ev EXCEPT ![b] = "off"]
               /\ loop_alive' = TRUE
               /\ gpc' = next
          ELSE /\ fault_ev' = [fault_ev EXCEPT ![b] = Outcome(b, r)]
               /\ loop_alive' = (Outcome(b, r) # "raised")
               /\ gpc' = IF loop_alive' THEN next ELSE b
    /\ fault_ticks' = IF loop_alive' /\ next = "hand" THEN fault_ticks + 1
                      ELSE fault_ticks
    /\ UNCHANGED <<now, cpVars, cpObs, pushVars, swipeVars, handVars,
                   sessVars, taskVars, emaVars, run_flags, loopVars,
                   last_macro_time,
                   tick_start, gate_ev, moreVars>>

\* if args.hands and hand_landmarker: ...
FaultHand(r) == FaultBlock("hand", run_flags.hands, r, "pose")

\* if (args.posture or args.push) and pose_landmarker and ...
FaultPose(r) == FaultBlock("pose", run_flags.posture, r, "face")

\* if args.face and face_landmarker and ...
FaultFace(r) == FaultBlock("face", run_flags.face, r, "hand")

InitFault ==
    /\ now = 0
    /\ ParkedCP
    /\ ParkedPush
    /\ ParkedSwipe
    /\ ParkedHand
    /\ ParkedSession
    /\ loop_alive = TRUE
    /\ run_flags \in [{"hands", "posture", "face"} -> BOOLEAN]
    /\ fault_ev = NoFaultEvent
    /\ fault_ticks = 0
    /\ ParkedEma
    /\ ParkedLoop
    /\ gpc = "hand"
    /\ last_macro_time = 0
    /\ tick_start = "none"
    /\ gate_ev = NoGateEvent
    /\ ParkedMore

NextFault ==
    \/ \E r \in BlockResults : FaultHand(r)
    \/ \E r \in BlockResults : FaultPose(r)
    \/ \E r \in BlockResults : FaultFace(r)

SpecFault == InitFault /\ [][NextFault]_vars

(***************************************************************************)
(* The moving averages on a constant input: the palm centroid              *)
(* (smoothed_x, EMA_ALPHA = 0.3; gesture_engine.py and unified_engine.py)  *)
(* and the blink scores (left_blink_ema, FACE_EMA_ALPHA = 0.5).  Samples   *)
(* lie on a grid of whole numbers; the average is held exactly, as a whole *)
(* number of units of 10^-ema_exp, and every frame of the average adds a   *)
(* decimal place.                                                          *)
(***************************************************************************)
EMA_ALPHA == 3              \* 0.3, in tenths
FACE_EMA_ALPHA == 5         \* 0.5, in tenths

\* Bounds of the model.
EmaFrames == 6              \* frames the model runs for
EmaGrid == 4                \* samples and starting values are 0..EmaGrid

RECURSIVE Pow10(_)
Pow10(k) == IF k = 0 THEN 1 ELSE 10 * Pow10(k - 1)

\* alpha * sample + (1 - alpha) * old, with old in units of 10^-k and the
\* result in units of 10^-(k+1).
Ema_Overshoot(alpha, old, k, sample) ==
    (10 + alpha) * sample * Pow10(k) - alpha * old
Ema(alpha, old, k, sample) ==
    alpha * sample * Pow10(k) + (10 - alpha) * old

\* The average the model follows and its smoothing factor.
EmaValue == IF ema_of = "palm" THEN smoothed_x ELSE left_blink_ema

EmaAlpha == IF ema_of = "palm" THEN EMA_ALPHA ELSE FACE_EMA_ALPHA

\* A hand frame: if smoothed_x is None the sample is taken as it is.
EmaPalm ==
    /\ ema_of = "palm"
    /\ ema_frames < EmaFrames
    /\ ema_frames' = ema_frames + 1
    /\ IF smoothed_x = None
          THEN /\ smoothed_x' = ema_input
               /\ ema_exp' = ema_exp
          ELSE /\ smoothed_x' = Ema(EMA_ALPHA, smoothed_x, ema_exp, ema_input)
               /\ ema_exp' = ema_exp + 1
    /\ UNCHANGED <<now, cpVars, cpObs, pushVars, can_trigger, last_event_time,
                   smoothed_y, neutral_y, hand_presence_start,
                   hand_lost_frames, swipe_last, swipe_gap, handVars,
                   sessVars, taskVars, faultVars, ema_of, ema_input,
                   ema_start, loopVars, gateVars, moreVars>>

\* A face frame.
EmaBlink ==
    /\ ema_of = "blink"
    /\ ema_frames < EmaFrames
    /\ ema_frames' = ema_frames + 1
    /\ left_blink_ema' = Ema(FACE_EMA_ALPHA, left_blink_ema, ema_exp, ema_input)
    /\ ema_exp' = ema_exp + 1
    /\ UNCHANGED <<now, cpVars, cpObs, pushVars, swipeVars, handVars,
                   sessVars, taskVars, faultVars, ema_of, ema_input,
                   ema_start, loopVars, gateVars, snapVars,
                   wink_dwell_counter, last_wink_time, last_tilt_time,
                   right_blink_ema, wink_ev, postureVars, undoVars>>

\* The average starts at any value of the grid (left there by earlier
\* frames); the palm centroid may also start at None.
InitEma ==
    /\ now = 0
    /\ ParkedCP
    /\ ParkedPush
    /\ ema_of \in {"palm", "blink"}
    /\ ema_input \in 0..EmaGrid
    /\ ema_start \in (0..EmaGrid) \cup {None}
    /\ ema_of = "blink" => ema_start # None
    /\ ema_exp = 0
    /\ ema_frames = 0
    /\ can_trigger = TRUE
    /\ last_event_time = 0
    /\ smoothed_x = IF ema_of = "palm" THEN ema_start ELSE None
    /\ smoothed_y = None
    /\ neutral_y = None
    /\ hand_presence_start = None
    /\ hand_lost_frames = 0
    /\ swipe_last = None
    /\ swipe_gap = None
    /\ ParkedHand
    /\ ParkedSession
    /\ ParkedFault
    /\ ParkedLoop
    /\ ParkedGate
    /\ ParkedSnap
    /\ wink_dwell_counter = 0
    /\ last_wink_time = 0
    /\ last_tilt_time = 0
    /\ left_blink_ema = IF ema_of = "blink" THEN ema_start ELSE 0
    /\ right_blink_ema = 0
    /\ wink_ev = NoWinkEvent
    /\ ParkedPosture
    /\ ParkedUndo

NextEma ==
    \/ EmaPalm
    \/ EmaBlink

SpecEma == InitEma /\ [][NextEma]_vars

-----------------------------------------------------------------------------
(***************************************************************************)
(* Claims about the copy/paste flow, checked under Spec.                   *)
(***************************************************************************)

\* C1: from IDLE with fist_frames = 0, the cooldown elapsed and no action of
\* the loop under way, once read_stdin has applied selection_changed(true)
\* and no other selection record follows: no copy goes out before
\* REQUIRED_FRAMES fist frames in a row are processed, and once the tick of
\* the REQUIRED_FRAMES-th is over exactly one copy has gone out and the state
\* is AWAITING_PASTE; a further fist frame adds no second copy.
C1_CopyOnce ==
    scen =>
        /\ copies <= 1
        /\ scen_fists < REQUIRED_FRAMES => copies = 0
        /\ (scen_fists >= REQUIRED_FRAMES /\ pc = "top") =>
              (copies = 1 /\ current_state = STATE_AWAITING_PASTE)

C1_Witness ==
    /\ scen
    /\ scen_fists = REQUIRED_FRAMES + 1
    /\ pc = "top"
    /\ copies = 1

\* C2: after read_stdin has moved the state from AWAITING_COPY to IDLE on
\* selection_changed(false), no copy record goes out until a later
\* selection_changed(true) is processed.
C2_NoCopyAfterCancel ==
    [][ last_sel = "cancel" => ~ (pc = "copy_print" /\ pc' = "copy_set") ]_vars

C4_CountersBounded ==
    /\ fist_frames \in 0..REQUIRED_FRAMES
    /\ open_frames \in 0..REQUIRED_FRAMES

\* C5 as claimed: whenever a stable flag is true, the REQUIRED_FRAMES latest
\* hand frames all matched that gesture.
C5_StableMeansRun ==
    /\ is_stable_fist => fist_run >= REQUIRED_FRAMES
    /\ is_stable_open => open_run >= REQUIRED_FRAMES

\* C5 as amended: whenever a stable flag is true, at least REQUIRED_FRAMES
\* frames matching that gesture were processed since its counter was last 0,
\* and a flag turns from false to true only on a tick whose frame matches.
C5_StableMeansMatches ==
    [][ /\ is_stable_fist' => fist_matches' >= REQUIRED_FRAMES
        /\ is_stable_open' => open_matches' >= REQUIRED_FRAMES
        /\ (~ is_stable_fist /\ is_stable_fist') => fist_run' >= 1
        /\ (~ is_stable_open /\ is_stable_open') => open_run' >= 1
      ]_vars

C5_Witness ==
    /\ is_stable_fist
    /\ fist_run < REQUIRED_FRAMES
    /\ fist_matches >= REQUIRED_FRAMES

\* C6: the tick times of any two consecutive copy/paste records differ by
\* more than action_cooldown.
C6_CooldownBetweenActions ==
    emit_gap # None => emit_gap > action_cooldown

C6_Witness ==
    /\ emit_gap # None
    /\ pc = "paste_set"

-----------------------------------------------------------------------------
(***************************************************************************)
(* Claims about the push/confirm flow, checked under SpecPush.             *)
(***************************************************************************)

\* C8: a pose tick after the warmup window, in MONITORING, with the latest
\* confirmed push over for more than PUSH_COOLDOWN: if the eye-distance ratio is
\* below PUSH_THRESHOLD the state is AWAITING_CONFIRMATION afterwards and
\* confirmation_start_time is the time of the tick; otherwise the state is
\* still MONITORING.
C8_PhaseOne ==
    ( /\ pose_ev.kind = "pose"
      /\ pose_ev.warm
      /\ pose_ev.pre = PUSH_STATE_MONITORING
      /\ pose_ev.rested ) =>
        IF pose_ev.low
        THEN /\ push_state = PUSH_STATE_AWAITING_CONFIRMATION
             /\ confirmation_start_time = pose_ev.t
             /\ pose_ev.t > 0
        ELSE push_state = PUSH_STATE_MONITORING

C8_Witness ==
    /\ pose_ev.kind = "pose"
    /\ pose_ev.warm
    /\ pose_ev.pre = PUSH_STATE_MONITORING
    /\ pose_ev.rested
    /\ pose_ev.low
    /\ last_confirm # NoConfirm

\* C9: a pose tick in AWAITING_CONFIRMATION with both wrists above the
\* reference line starts exactly one push and leaves the state MONITORING;
\* and no tick enters AWAITING_CONFIRMATION unless more than PUSH_COOLDOWN has
\* passed since the latest confirmation.
C9_ConfirmAndLockout ==
    /\ ( /\ pose_ev.kind = "pose"
         /\ pose_ev.pre = PUSH_STATE_AWAITING_CONFIRMATION
         /\ pose_ev.hands_up ) =>
           /\ pose_ev.pushes = 1
           /\ push_state = PUSH_STATE_MONITORING
           /\ last_confirm # NoConfirm
           /\ last_push_time = last_confirm.done
    /\ ( /\ pose_ev.kind = "pose"
         /\ pose_ev.pre = PUSH_STATE_MONITORING
         /\ push_state = PUSH_STATE_AWAITING_CONFIRMATION ) =>
           pose_ev.cooled
    /\ pose_ev.pushes = 1 =>
           /\ pose_ev.pre = PUSH_STATE_AWAITING_CONFIRMATION
           /\ pose_ev.hands_up

\* A low ratio was refused inside the lockout of a confirmed push.
C9_Witness ==
    /\ pose_ev.kind = "pose"
    /\ pose_ev.warm
    /\ pose_ev.pre = PUSH_STATE_MONITORING
    /\ pose_ev.low
    /\ ~ pose_ev.cooled
    /\ push_state = PUSH_STATE_MONITORING
    /\ last_confirm # NoConfirm

C11_WallClockDeadline ==
    /\ ( /\ pose_ev.kind = "pose"
         /\ pose_ev.pre = PUSH_STATE_AWAITING_CONFIRMATION
         /\ pose_ev.late ) =>
           /\ pose_ev.pushes = 0
           /\ push_state = PUSH_STATE_MONITORING
    /\ pose_ev.pushes = 1 => ~ pose_ev.late

-----------------------------------------------------------------------------
(***************************************************************************)
(* Claims about the swipe logic, checked under SpecSwipe.                  *)
(***************************************************************************)

\* C7: any two emitted swipes are at least the repeat cooldown apart (the
\* shorter of the two configured values, COOLDOWN, is taken), whatever the
\* trajectory of the hand.
C7_SwipeCooldown == swipe_gap # None => swipe_gap >= COOLDOWN

-----------------------------------------------------------------------------
(***************************************************************************)
(* Claims about the pose classifiers, checked under SpecHand.              *)
(***************************************************************************)

\* C12: for a hand frame of hand size > 0 is_fist and is_open never both
\* return true.
C12_FistOpenExclusive ==
    (hand_out.done /\ get_hand_size(hand_in) > 0) =>
        ~ (hand_out.fist /\ hand_out.open)

\* A fist with three fingers whose tips pass the hand-size test of is_open
\* (tip > 1.4 x hand size) and fail only its MCP test.
C12_Witness ==
    /\ hand_out.done
    /\ get_hand_size(hand_in) > 0
    /\ hand_out.fist
    /\ Cardinality({ i \in Fingers :
                        10 * hand_in.tip[i] > 14 * get_hand_size(hand_in) }) >= 3

\* Both kinds of frame are classified.
C12_WitnessOpen ==
    /\ hand_out.done
    /\ hand_out.open
    /\ ~ hand_out.fist

-----------------------------------------------------------------------------
(***************************************************************************)
(* Claims about the read_stdin listener, checked under Spec.               *)
(***************************************************************************)

\* C13: reading a line that json.loads rejects, or JSON that is no object,
\* changes neither current_state nor shutdown_flag, emits nothing and leaves
\* the listener at its readline; a selection_changed(true) record read next
\* is processed (current_state becomes AWAITING_COPY).
C13_MalformedIgnored ==
    [][ /\ (last_sel # "unparsable" /\ last_sel' = "unparsable") =>
             /\ current_state' = current_state
             /\ shutdown_flag' = shutdown_flag
             /\ lpc' = "read"
             /\ pc' = pc
             /\ emit_last' = emit_last
        /\ (last_sel = "unparsable" /\ last_sel' = "true") =>
             current_state' = STATE_AWAITING_COPY ]_vars

\* An unparsable line was read while a selection was waiting for its copy.
C13_Witness ==
    /\ last_sel = "unparsable"
    /\ current_state = STATE_AWAITING_COPY
    /\ lpc = "read"
    /\ ~ shutdown_flag

\* C14: a record that has not exactly the shape {"event":
\* "selection_changed", "hasSelection": <bool>} never changes current_state:
\* neither the step that reads it nor the store of STATE_IDLE it leads to.
C14_OnlyWellFormedChanges ==
    [][ /\ ( /\ last_sel' \in {"bad_true", "bad_false", "other"}
             /\ last_sel' # last_sel ) => current_state' = current_state
        /\ (lpc = "set_idle" /\ last_sel = "bad_false" /\ lpc' = "read") =>
             current_state' = current_state ]_vars

-----------------------------------------------------------------------------
(***************************************************************************)
(* Claims about the head of the frame loop, checked under SpecLoop (C15)   *)
(* and SpecLoopFair (C16).                                                 *)
(***************************************************************************)

\* C15: in unified_engine a failed read that is the 31st in a row emits the
\* one error record and halts the loop; a failed read that is at most the
\* 30th in a row emits nothing and leaves the loop running; the error record
\* is emitted at no other step, at most once; a good read sets
\* consecutive_failures to 0.
C15_ErrorAfterThirty ==
    [][ engine = "unified" =>
          /\ error_out' <= 1
          /\ (fail_run' # fail_run /\ fail_run' > 0) =>
                IF fail_run' > MaxFailures
                THEN error_out' = error_out + 1 /\ pc' = "done"
                ELSE error_out' = error_out /\ pc' = "top"
          /\ (error_out' # error_out) =>
                (fail_run' # fail_run /\ fail_run' > MaxFailures)
          /\ (fail_run > 0 /\ fail_run' = 0) => consecutive_failures' = 0
      ]_vars

C15_Witness ==
    /\ engine = "unified"
    /\ error_out = 1
    /\ pc = "done"
    /\ fail_run = MaxFailures + 1
    /\ ~ shutdown_flag

\* C16: the end of the inbound stream sets shutdown_flag and stops the
\* listener; shutdown_flag is never cleared; and with the frame loop
\* scheduled fairly the loop is over some time after the flag is set.
C16_ShutdownTerminates ==
    /\ shutdown_flag ~> pc = "done"
    /\ [][ /\ shutdown_flag => shutdown_flag'
           /\ (lpc = "read" /\ lpc' = "stopped") => shutdown_flag'
           /\ lpc = "stopped" => lpc' = "stopped" ]_vars

\* The loop ended on the flag while the reads were failing.
C16_Witness ==
    /\ shutdown_flag
    /\ lpc = "stopped"
    /\ pc = "done"
    /\ fail_run > 0
    /\ error_out = 0

-----------------------------------------------------------------------------
(***************************************************************************)
(* Claims about the pausing of the classifiers, checked under SpecGate.    *)
(***************************************************************************)

\* C17: no macro gesture is emitted and neither the push logic nor the face
\* logic (wink, tilt) runs while current_state is AWAITING_COPY, and none of
\* the three acts on a tick that began in AWAITING_COPY.
C17_PausedInAwaitingCopy ==
    /\ gate_ev.macro # STATE_AWAITING_COPY
    /\ gate_ev.push # STATE_AWAITING_COPY
    /\ gate_ev.face # STATE_AWAITING_COPY
    /\ tick_start = STATE_AWAITING_COPY => gate_ev = NoGateEvent

\* C18: no macro gesture is emitted and neither the push logic nor the tilt
\* logic runs while current_state is AWAITING_PASTE.
C18_PausedInAwaitingPaste ==
    /\ gate_ev.macro # STATE_AWAITING_PASTE
    /\ gate_ev.push # STATE_AWAITING_PASTE
    /\ gate_ev.face # STATE_AWAITING_PASTE

-----------------------------------------------------------------------------
(***************************************************************************)
(* Claims about the state shared by the listener and the frame loop,       *)
(* checked under Spec.                                                     *)
(***************************************************************************)

\* C19: once the listener has stored STATE_IDLE for a selection_changed(false)
\* ahead of the copy record, the loop neither prints that copy record nor
\* stores AWAITING_PASTE for it, under every interleaving.
C19_StateProtected ==
    [][ last_sel = "cancel" =>
          /\ ~ (pc = "copy_print" /\ pc' = "copy_set")
          /\ (pc = "copy_set" /\ pc' = "top") =>
                current_state' # STATE_AWAITING_PASTE ]_vars

\* C20: from the listener's store of AWAITING_COPY for a
\* selection_changed(true) until a tick begins or the listener handles its
\* next line, current_state stays AWAITING_COPY: no store of the frame loop
\* replaces it.
C20_SelectionNotLost ==
    last_sel = "true" => current_state = STATE_AWAITING_COPY


\* C24: a selection_changed(true) record moves the state to AWAITING_COPY
\* from IDLE only; handled in any other state, AWAITING_PASTE among them, it
\* leaves the state as it is.
C24_SelectionOnlyFromIdle ==
    [][ (lpc = "read" /\ last_sel # "true" /\ last_sel' = "true") =>
          /\ current_state = STATE_IDLE => current_state' = STATE_AWAITING_COPY
          /\ current_state # STATE_IDLE => current_state' = current_state ]_vars


\* C29: an entry into AWAITING_CONFIRMATION comes at least PUSH_COOLDOWN
\* after the entry before it, whether the earlier window ended with a push
\* or with the timeout.
C29_EntriesApart ==
    (pose_ev.t > 0 /\ pose_ev.gap # None) => pose_ev.gap >= PUSH_COOLDOWN

\* An entry whose earlier window ended by timeout: no push was ever
\* confirmed.
C29_Witness ==
    /\ pose_ev.t = now
    /\ pose_ev.gap # None
    /\ last_confirm = NoConfirm
    /\ push_state = PUSH_STATE_AWAITING_CONFIRMATION

\* An entry that follows a confirmed push.
C29_WitnessAfterPush ==
    /\ pose_ev.t = now
    /\ pose_ev.gap # None
    /\ last_confirm # NoConfirm
    /\ push_state = PUSH_STATE_AWAITING_CONFIRMATION

\* C30: whenever a pose frame is processed after the warmup window,
\* neutral_dist holds a baseline, also when no pose frame was processed
\* during the warmup.
C30_BaselineReady ==
    (pose_ev.kind = "pose" /\ pose_ev.warm) => neutral_dist # None

-----------------------------------------------------------------------------
(***************************************************************************)
(* Claims about the snap of gesture_engine.py, checked under SpecSnap.     *)
(***************************************************************************)

\* C27: a snap goes out only on a frame at release distance that follows a
\* pinch frame seen since the release before it, and only past
\* SNAP_COOLDOWN; every such release, emitting or not, uses the pinch up,
\* so one pinch gives at most one snap.
C27_SnapIsEdge ==
    /\ snap_ev.emitted => (snap_ev.far /\ snap_ev.engaged /\ snap_ev.cooled)
    /\ (snap_ev.far /\ snap_ev.engaged) => ~ snap_prepared
    /\ (snap_ev.kind = "frame" /\ snap_ev.armed) <=> snap_prepared

\* A snap was emitted.
C27_Witness ==
    /\ snap_ev.emitted
    /\ last_snap_time = now
    /\ ~ snap_prepared

\* A release within SNAP_COOLDOWN of the last snap used the pinch up without
\* a snap.
C27_WitnessConsumed ==
    /\ snap_ev.far
    /\ snap_ev.engaged
    /\ ~ snap_ev.cooled
    /\ ~ snap_ev.emitted
    /\ last_snap_time > 0
    /\ ~ snap_prepared

\* C28: a snap goes out only if the release comes within a bounded time of
\* the pinch and the tracking state was not cleared in between.
C28_ReleaseInTime ==
    snap_ev.emitted => (snap_ev.since <= SnapWindow /\ ~ snap_ev.reset)

-----------------------------------------------------------------------------
(***************************************************************************)
(* Claim about the wink of unified_engine.py, checked under SpecFace.      *)
(***************************************************************************)

\* C26: on a face frame the dwell counter goes up by one when the wink
\* predicate matches and down by one, not below 0, when it does not: a
\* single frame without a wink does not erase the dwell gathered so far.
C26_WinkDwellDecays ==
    wink_ev.kind = "frame" =>
        wink_dwell_counter = IF wink_ev.winking THEN wink_ev.pre + 1
                             ELSE Max(0, wink_ev.pre - 1)

-----------------------------------------------------------------------------
(***************************************************************************)
(* Claim about posture reporting, checked under SpecPosture.               *)
(***************************************************************************)

\* C23: in extension mode, a pose frame classified as a posture other than
\* the one on record prints exactly one posture record with the new value
\* and puts it on record, whichever way the change goes; a frame classified
\* as the posture on record prints nothing.
C23_PostureReported ==
    (posture_ev.kind = "frame" /\ posture_ev.state # "none" /\ extension) =>
        IF posture_ev.state # posture_ev.pre
        THEN posture_ev.out = << posture_ev.state >>
             /\ current_posture = posture_ev.state
        ELSE posture_ev.out = <<>> /\ current_posture = posture_ev.pre

-----------------------------------------------------------------------------
(***************************************************************************)
(* Claims about a whole tick on its landmark results, checked under        *)
(* SpecTick.                                                               *)
(***************************************************************************)

\* C25: on every processed hand frame the counter of the gesture the frame
\* matches goes up by exactly 1 and the other one goes down by 1 but not
\* below 0; a frame that matches neither takes 1 off both, not below 0; no
\* frame takes a counter from above 1 to 0; and a fist frame never adds to
\* open_frames.  tick_ev holds the kind of the latest hand frame and the
\* counters before it.
C25_AsymmetricDecay ==
    tick_ev.kind = "hand" =>
        /\ tick_ev.fist =>
             /\ fist_frames = tick_ev.ff + 1
             /\ open_frames = Max(0, tick_ev.of - 1)
        /\ (~ tick_ev.fist /\ tick_ev.open) =>
             /\ open_frames = tick_ev.of + 1
             /\ fist_frames = Max(0, tick_ev.ff - 1)
        /\ (~ tick_ev.fist /\ ~ tick_ev.open) =>
             /\ fist_frames = Max(0, tick_ev.ff - 1)
             /\ open_frames = Max(0, tick_ev.of - 1)
        /\ tick_ev.ff > 1 => fist_frames > 0
        /\ tick_ev.of > 1 => open_frames > 0

\* A fist frame arrived with open_frames above 1 and took 1 off it.
C25_Witness ==
    /\ tick_ev.kind = "hand"
    /\ tick_ev.fist
    /\ tick_ev.of > 1
    /\ open_frames = tick_ev.of - 1
    /\ fist_frames = tick_ev.ff + 1

\* A frame that is neither fist nor open arrived with both counters above 0.
C25_WitnessNeither ==
    /\ tick_ev.kind = "hand"
    /\ ~ tick_ev.fist
    /\ ~ tick_ev.open
    /\ tick_ev.ff > 0
    /\ tick_ev.of > 0

\* C22: on a hand frame of hand size 0 every hand classifier reports no
\* gesture: is_fist and is_open are false, no macro gesture is emitted and
\* the OK-gesture test of the undo block is false.
C22_ZeroSizeNoGesture ==
    (tick_ev.kind = "hand" /\ tick_ev.size = 0) =>
        /\ ~ tick_ev.fist
        /\ ~ tick_ev.open
        /\ tick_ev.macro = "none"
        /\ ~ tick_ev.ok

\* C21: a tick without hand landmarks leaves current_state, fist_frames,
\* open_frames, was_fist_previously and the undo state as they were and
\* prints no record; a pose result of fewer than 21 landmarks leaves the
\* posture state, the push state and the baselines as they were and prints
\* nothing.
C21_NoSignalNoChange ==
    [][ /\ (gpc = "top" /\ gpc' = "pose" /\ tick_ev'.kind = "nohand") =>
             /\ UNCHANGED <<current_state, fist_frames, open_frames,
                            was_fist_previously, last_cp_action_time,
                            last_macro_time, undo_state, undo_touch_start,
                            last_undo_time>>
             /\ tick_ev'.out = <<>>
        /\ (gpc = "pose" /\ gpc' = "top" /\ posture_ev'.kind = "partial") =>
             /\ UNCHANGED <<TickPostureState, TickPushState>>
             /\ posture_ev'.out = <<>>
             /\ pose_ev'.out = <<>>
      ]_vars

\* The hand left the frame in the middle of a copy and of an OK gesture.
C21_Witness ==
    /\ tick_ev.kind = "nohand"
    /\ current_state # STATE_IDLE
    /\ fist_frames > 0
    /\ undo_state = UNDO_STATE_TOUCH

\* A result of fewer than 21 landmarks arrived with the baselines taken.
C21_WitnessPartial ==
    /\ posture_ev.kind = "partial"
    /\ pose_ev.kind = "partial"
    /\ neutral_dist # None
    /\ neutral_neck_dist # None

-----------------------------------------------------------------------------
(***************************************************************************)
(* Claims about the loss of the hand in gesture_engine.py, checked under   *)
(* SpecSwipe.                                                              *)
(***************************************************************************)

\* C39: the tracking state (smoothed_x, smoothed_y, neutral_y,
\* hand_presence_start, can_trigger) is cleared only on a frame without a
\* hand that makes more than LOST_FRAME_LIMIT such frames in a row; up to
\* LOST_FRAME_LIMIT of them leave all of it as it was; a frame with a hand
\* sets hand_lost_frames to 0; and a frame without a hand emits no swipe.
\* A frame without a hand is the step that adds 1 to hand_lost_frames, a
\* frame with a hand any other step that leaves the clock alone.
C39_LossHysteresis ==
    [][ /\ (hand_lost_frames' = hand_lost_frames + 1) =>
             /\ hand_lost_frames' <= LOST_FRAME_LIMIT =>
                  UNCHANGED <<smoothed_x, smoothed_y, neutral_y,
                              hand_presence_start, can_trigger>>
             /\ hand_lost_frames' > LOST_FRAME_LIMIT =>
                  /\ smoothed_x' = None
                  /\ smoothed_y' = None
                  /\ neutral_y' = None
                  /\ hand_presence_start' = None
                  /\ can_trigger'
             /\ UNCHANGED <<swipe_last, last_event_time, swipe_gap>>
        /\ (now' = now /\ hand_lost_frames' # hand_lost_frames + 1) =>
             /\ hand_lost_frames' = 0
             /\ smoothed_x' # None
        /\ (smoothed_x # None /\ smoothed_x' = None) =>
             hand_lost_frames' > LOST_FRAME_LIMIT
      ]_vars

\* The hand has been gone for LOST_FRAME_LIMIT frames after a swipe and the
\* tracking state is still there, the trigger still spent.
C39_Witness ==
    /\ hand_lost_frames = LOST_FRAME_LIMIT
    /\ smoothed_x # None
    /\ hand_presence_start # None
    /\ ~ can_trigger

\* One frame more and the tracking state is gone, the trigger armed again.
C39_WitnessReset ==
    /\ hand_lost_frames = LOST_FRAME_LIMIT + 1
    /\ smoothed_x = None
    /\ hand_presence_start = None
    /\ can_trigger
    /\ swipe_last # None

-----------------------------------------------------------------------------
(***************************************************************************)
(* Claims about the debounce counters over long runs, checked under        *)
(* SpecCount.                                                              *)
(***************************************************************************)

\* C35: in every reachable state of the frame loop is_stable_fist and
\* is_stable_open are not both true: fist_frames >= REQUIRED_FRAMES and
\* open_frames >= REQUIRED_FRAMES never hold together.
C35_NeverBothStable == ~ (is_stable_fist /\ is_stable_open)

-----------------------------------------------------------------------------
(***************************************************************************)
(* Claims about the macro gestures, checked under SpecMacro.               *)
(***************************************************************************)

\* C34: no finger-state vector matches more than one of the four macro
\* patterns, so the order of the if/elif tests decides nothing; a tick
\* emits at most one macro record, the one its frame matches; and a macro
\* record comes more than MACRO_COOLDOWN after the one before it.
\* macro_last is the time of the latest macro record.
C34_MacroArbitration ==
    [][ /\ \A f \in FingerStates :
             /\ Cardinality(Matching(f)) <= 1
             /\ Macro(f) # "none" => Matching(f) = { Macro(f) }
        /\ tick_ev'.kind = "hand" =>
             /\ Len(tick_ev'.out) <= 1
             /\ tick_ev'.macro # "none" => tick_ev'.out = << tick_ev'.macro >>
        /\ macro_last' # macro_last =>
             /\ tick_ev'.macro \in MacroNames
             /\ macro_last' = now
             /\ macro_last # None => macro_last' - macro_last > MACRO_COOLDOWN
      ]_vars

\* A macro record was printed at the end of the run.
C34_Witness ==
    /\ tick_ev.kind = "hand"
    /\ tick_ev.macro = "gesture_rock"
    /\ tick_ev.out = << "gesture_rock" >>
    /\ macro_last = now
    /\ now = MacroEnd

-----------------------------------------------------------------------------
(***************************************************************************)
(* Claims about the undo gesture, checked under SpecTick.                  *)
(***************************************************************************)

\* C38: the tick that prints the undo record ends a span of more than 0.4 s
\* in which every tick showed a hand making the OK gesture (ok_since is the
\* time of the first tick of that span; a tick without a hand ends it); it
\* comes more than 1.5 s after the undo record before it; and it leaves
\* undo_state IDLE.
C38_UndoNeedsHold ==
    [][ ( /\ gpc = "top"
          /\ gpc' = "pose"
          /\ tick_ev'.kind = "hand"
          /\ \E i \in DOMAIN tick_ev'.out : tick_ev'.out[i] = "action:undo" ) =>
             /\ ok_since' # None
             /\ 5 * (now - ok_since') > 4
             /\ now - last_undo_time > UndoRest
             /\ last_undo_time' = now
             /\ undo_state' = UNDO_STATE_IDLE
      ]_vars

(***************************************************************************)
(* Claims about the records of one run, checked under SpecRun.             *)
(***************************************************************************)
Readies == {i \in DOMAIN run_out : run_out[i] = "ready"}

\* C37: in extension mode a run that reached its frame loop or ended has
\* printed {"status": "ready"} exactly once, and every gesture, action and
\* posture record of the run comes after a ready record.
C37_ReadyOnceFirst ==
    extension =>
        /\ run_pc \in {"loop", "done"} => Cardinality(Readies) = 1
        /\ \A i \in DOMAIN run_out :
              run_out[i] \in {"gesture", "action", "posture"} =>
                  \E j \in Readies : j < i

(***************************************************************************)
(* Claims about the push threads, checked under SpecAsync.                 *)
(***************************************************************************)
\* C36: at most one thread of perform_git_push_async runs at any time, and
\* the git_push records are printed in the order in which the pushes were
\* confirmed.
C36_OnePushTask ==
    /\ Cardinality(push_tasks) <= 1
    /\ \A i, j \in DOMAIN push_results :
          i < j => push_results[i] < push_results[j]

(***************************************************************************)
(* Claims about the posture baselines, checked under SpecPosture.          *)
(***************************************************************************)
\* C31: once the baselines of the neck distance and of the shoulder height
\* are established, a frame that is classified as upright and whose neck
\* distance or shoulder height differs from the baseline moves the baseline:
\* it is estimated again on that frame, not kept at its first value.
C31_BaselineFollows ==
    [][ \A pl \in PostureFrames :
          ( /\ PostureFrame(pl)
            /\ neutral_neck_dist # None
            /\ ~ Calibrating(now)
            /\ Classified(pl, now) = "upright"
            /\ \/ NeckDist(pl) # neutral_neck_dist
               \/ pl.sy # neutral_shoulder_y ) =>
                  \/ neutral_neck_dist' # neutral_neck_dist
                  \/ neutral_shoulder_y' # neutral_shoulder_y
      ]_vars

(***************************************************************************)
(* Claims about exceptions in the frame loop, checked under SpecFault.     *)
(***************************************************************************)
Blocks == {"hand", "pose", "face"}

\* C33: an exception in the hand, pose or face block of a tick is caught at
\* that block: the frame loop keeps running, and the tick goes on to the
\* blocks after it.
C33_FaultContained ==
    \A b \in Blocks : fault_ev[b] \in {"caught", "raised"} => loop_alive

(***************************************************************************)
(* Claims about the moving averages, checked under SpecEma.                *)
(***************************************************************************)
\* The distance between the average and the constant input, in units of
\* 10^-ema_exp, and that distance before the first frame.
EmaDist == Abs(EmaValue - ema_input * Pow10(ema_exp))

EmaDist0 == Abs(ema_start - ema_input)

\* The tolerances the check uses, in tenths of a grid step.
Tolerances == {5, 10, 20}

\* The least n with (1 - alpha)^n * num <= den: the number of frames after
\* which a distance of num / den of the tolerance has shrunk below it.
RECURSIVE FramesNeeded(_, _, _)
FramesNeeded(alpha, num, den) ==
    IF num <= den THEN 0
    ELSE 1 + FramesNeeded(alpha, (10 - alpha) * num, 10 * den)

\* C32: on a constant input the distance between the average and the input
\* never grows from one frame to the next, the average never passes the
\* input, and the distance is within a tolerance after a number of frames
\* that the smoothing factor and the starting distance determine.
C32_EmaConverges ==
    /\ [][ (ema_frames' = ema_frames + 1 /\ EmaValue # None) =>
               EmaDist' <= Pow10(ema_exp' - ema_exp) * EmaDist ]_vars
    /\ [] ( (EmaValue # None /\ ema_start # None) =>
               /\ (EmaValue - ema_input * Pow10(ema_exp))
                      * (ema_start - ema_input) >= 0
               /\ \A tol \in Tolerances :
                     ema_frames >= FramesNeeded(EmaAlpha, 10 * EmaDist0, tol)
                         => 10 * EmaDist <= tol * Pow10(ema_exp) )

\* The average started EmaGrid steps from the input and took the frames it
\* needs to come within half a step of it.
C32_Witness ==
    /\ ema_start # None
    /\ EmaDist0 = EmaGrid
    /\ EmaDist > 0
    /\ FramesNeeded(EmaAlpha, 10 * EmaDist0, 5) > 1
    /\ ema_frames = FramesNeeded(EmaAlpha, 10 * EmaDist0, 5)

=============================================================================
